---- MODULE Spec2Model ----
(***************************************************************************)
(* Orchestration engine of the multi-agent data engineering swarm:         *)
(* the LangGraph workflow of graph.py (discovery -> prompt -> ingest ->    *)
(* clean -> transform -> debate -> route), the voting round of             *)
(* agents/validator.py, the stage wrappers of agents/*.py and the gap      *)
(* resolver of agents/gap_resolver.py.                                     *)
(*                                                                         *)
(* A Python str that the engine inspects is a sequence of one-character    *)
(* strings, so that lower(), split(), strip(), join() and the `in`         *)
(* substring test are computed, not assumed.  File paths, formats and      *)
(* code snippets are only compared or tested for emptiness and stay        *)
(* TLA+ strings ("" is Python's falsy None/"").                            *)
(***************************************************************************)
EXTENDS Integers, Sequences, FiniteSets, TLC

----------------------------------------------------------------------------
(* Python str operations *)

Range(f) == {f[i] : i \in DOMAIN f}

UpperChars == <<"A","B","C","D","E","F","G","H","I","J","K","L","M","N","O","P","Q","R","S","T","U","V","W","X","Y","Z">>

LowerChars == <<"a","b","c","d","e","f","g","h","i","j","k","l","m","n","o","p","q","r","s","t","u","v","w","x","y","z">>

ToLower == [c \in Range(UpperChars) |-> LowerChars[CHOOSE i \in 1..26 : UpperChars[i] = c]]

LowerChar(c) == IF c \in DOMAIN ToLower THEN ToLower[c] ELSE c

\* str.lower()
Lower(t) == [i \in 1..Len(t) |-> LowerChar(t[i])]

\* `sub in t` on two str
Contains(t, sub) ==
    \E i \in 1..(Len(t) - Len(sub) + 1) : \A j \in 1..Len(sub) : t[i + j - 1] = sub[j]

RECURSIVE Split(_, _)
\* str.split(sep) for a one-character separator
Split(t, sep) ==
    IF \A i \in 1..Len(t) : t[i] # sep
    THEN <<t>>
    ELSE LET k == CHOOSE i \in 1..Len(t) : t[i] = sep /\ \A j \in 1..(i - 1) : t[j] # sep
         IN  <<SubSeq(t, 1, k - 1)>> \o Split(SubSeq(t, k + 1, Len(t)), sep)

IsSpace(c) == c \in {" ", "\n", "\t"}

SetMin(S) == CHOOSE x \in S : \A y \in S : x <= y

SetMax(S) == CHOOSE x \in S : \A y \in S : y <= x

\* str.strip()
Strip(t) ==
    LET keep == {i \in 1..Len(t) : ~IsSpace(t[i])}
    IN  IF keep = {} THEN <<>> ELSE SubSeq(t, SetMin(keep), SetMax(keep))

RECURSIVE Join(_, _)
\* sep.join(parts)
Join(parts, sep) ==
    IF parts = <<>> THEN <<>>
    ELSE IF Len(parts) = 1 THEN parts[1]
    ELSE parts[1] \o sep \o Join(Tail(parts), sep)

\* t[:n]
Take(t, n) == SubSeq(t, 1, IF n < Len(t) THEN n ELSE Len(t))

\* seq[-n:]
LastN(s, n) == SubSeq(s, IF Len(s) > n THEN Len(s) - n + 1 ELSE 1, Len(s))

Digits == <<"0","1","2","3","4","5","6","7","8","9">>

RECURSIVE IntToText(_)
\* str(n) / f"{n}" for a non-negative int
IntToText(n) ==
    IF n < 10 THEN <<Digits[n + 1]>>
    ELSE IntToText(n \div 10) \o <<Digits[(n % 10) + 1]>>

RECURSIVE Perms(_)
\* every order in which iterating a Python set can yield its elements
Perms(S) ==
    IF S = {} THEN {<<>>}
    ELSE UNION {{<<x>> \o p : p \in Perms(S \ {x})} : x \in S}

\* d[k] = v on a Python dict
DictSet(d, k, v) == [x \in (DOMAIN d) \cup {k} |-> IF x = k THEN v ELSE d[x]]

EmptyDict == [x \in {} |-> ""]

----------------------------------------------------------------------------
(* String literals of the source *)

\* 'yes'
T_yes == <<"y", "e", "s">>

\* '; '
T_sep_gap == <<";", " ">>

\* 'MUST address these gaps: '
T_must_address == <<"M", "U", "S", "T", " ", "a", "d", "d", "r", "e", "s", "s", " ", "t", "h", "e", "s", "e", " ", "g", "a", "p", "s", ":", " ">>

\* '\n\nOriginal Task: '
T_original_task == <<"\n", "\n", "O", "r", "i", "g", "i", "n", "a", "l", " ", "T", "a", "s", "k", ":", " ">>

\* '\n\nIMPORTANT: Address the gaps above in your refinements.'
T_important == <<"\n", "\n", "I", "M", "P", "O", "R", "T", "A", "N", "T", ":", " ", "A", "d", "d", "r", "e", "s", "s", " ", "t", "h", "e", " ", "g", "a", "p", "s", " ", "a", "b", "o", "v", "e", " ", "i", "n", " ", "y", "o", "u", "r", " ", "r", "e", "f", "i", "n", "e", "m", "e", "n", "t", "s", ".">>

\* 'validation'
T_validation == <<"v", "a", "l", "i", "d", "a", "t", "i", "o", "n">>

\* 'validation_error_'
T_validation_error_ == <<"v", "a", "l", "i", "d", "a", "t", "i", "o", "n", "_", "e", "r", "r", "o", "r", "_">>

\* 'Validation failed for '
T_validation_failed_for == <<"V", "a", "l", "i", "d", "a", "t", "i", "o", "n", " ", "f", "a", "i", "l", "e", "d", " ", "f", "o", "r", " ">>

\* ' - parsing error. Pipeline needs refinement.'
T_parsing_error == <<" ", "-", " ", "p", "a", "r", "s", "i", "n", "g", " ", "e", "r", "r", "o", "r", ".", " ", "P", "i", "p", "e", "l", "i", "n", "e", " ", "n", "e", "e", "d", "s", " ", "r", "e", "f", "i", "n", "e", "m", "e", "n", "t", ".">>

\* 'Consensus: '
T_consensus == <<"C", "o", "n", "s", "e", "n", "s", "u", "s", ":", " ">>

\* '/'
T_slash == <<"/">>

\* ' yes votes. Details: '
T_yes_votes == <<" ", "y", "e", "s", " ", "v", "o", "t", "e", "s", ".", " ", "D", "e", "t", "a", "i", "l", "s", ":", " ">>

\* ' | '
T_bar == <<" ", "|", " ">>

\* 'data_ingestion_fallback'
T_data_ingestion_fallback == <<"d", "a", "t", "a", "_", "i", "n", "g", "e", "s", "t", "i", "o", "n", "_", "f", "a", "l", "l", "b", "a", "c", "k">>

\* 'data_cleaning_fallback'
T_data_cleaning_fallback == <<"d", "a", "t", "a", "_", "c", "l", "e", "a", "n", "i", "n", "g", "_", "f", "a", "l", "l", "b", "a", "c", "k">>

\* 'feature_engineering_fallback'
T_feature_engineering_fallback == <<"f", "e", "a", "t", "u", "r", "e", "_", "e", "n", "g", "i", "n", "e", "e", "r", "i", "n", "g", "_", "f", "a", "l", "l", "b", "a", "c", "k">>

\* 'Ingestor failed with parsing error. Applied basic CSV loading and profiling. Original error: '
T_ingestor_failed == <<"I", "n", "g", "e", "s", "t", "o", "r", " ", "f", "a", "i", "l", "e", "d", " ", "w", "i", "t", "h", " ", "p", "a", "r", "s", "i", "n", "g", " ", "e", "r", "r", "o", "r", ".", " ", "A", "p", "p", "l", "i", "e", "d", " ", "b", "a", "s", "i", "c", " ", "C", "S", "V", " ", "l", "o", "a", "d", "i", "n", "g", " ", "a", "n", "d", " ", "p", "r", "o", "f", "i", "l", "i", "n", "g", ".", " ", "O", "r", "i", "g", "i", "n", "a", "l", " ", "e", "r", "r", "o", "r", ":", " ">>

\* 'Cleaner failed with parsing error. Applied basic cleaning - dropna(). Original error: '
T_cleaner_failed == <<"C", "l", "e", "a", "n", "e", "r", " ", "f", "a", "i", "l", "e", "d", " ", "w", "i", "t", "h", " ", "p", "a", "r", "s", "i", "n", "g", " ", "e", "r", "r", "o", "r", ".", " ", "A", "p", "p", "l", "i", "e", "d", " ", "b", "a", "s", "i", "c", " ", "c", "l", "e", "a", "n", "i", "n", "g", " ", "-", " ", "d", "r", "o", "p", "n", "a", "(", ")", ".", " ", "O", "r", "i", "g", "i", "n", "a", "l", " ", "e", "r", "r", "o", "r", ":", " ">>

\* 'Transformer failed with parsing error. Applied basic profit ratio derivation. Original error: '
T_transformer_failed == <<"T", "r", "a", "n", "s", "f", "o", "r", "m", "e", "r", " ", "f", "a", "i", "l", "e", "d", " ", "w", "i", "t", "h", " ", "p", "a", "r", "s", "i", "n", "g", " ", "e", "r", "r", "o", "r", ".", " ", "A", "p", "p", "l", "i", "e", "d", " ", "b", "a", "s", "i", "c", " ", "p", "r", "o", "f", "i", "t", " ", "r", "a", "t", "i", "o", " ", "d", "e", "r", "i", "v", "a", "t", "i", "o", "n", ".", " ", "O", "r", "i", "g", "i", "n", "a", "l", " ", "e", "r", "r", "o", "r", ":", " ">>

\* 'Resolver solution validated: '
T_resolver_validated == <<"R", "e", "s", "o", "l", "v", "e", "r", " ", "s", "o", "l", "u", "t", "i", "o", "n", " ", "v", "a", "l", "i", "d", "a", "t", "e", "d", ":", " ">>

\* 'Resolver applied but needs refinement: '
T_resolver_needs == <<"R", "e", "s", "o", "l", "v", "e", "r", " ", "a", "p", "p", "l", "i", "e", "d", " ", "b", "u", "t", " ", "n", "e", "e", "d", "s", " ", "r", "e", "f", "i", "n", "e", "m", "e", "n", "t", ":", " ">>

\* 'Comprehensive Multi-Gap Resolution'
T_multi_gap_name == <<"C", "o", "m", "p", "r", "e", "h", "e", "n", "s", "i", "v", "e", " ", "M", "u", "l", "t", "i", "-", "G", "a", "p", " ", "R", "e", "s", "o", "l", "u", "t", "i", "o", "n">>

\* 'Multi-gap resolver addressed: '
T_multi_gap_rationale == <<"M", "u", "l", "t", "i", "-", "g", "a", "p", " ", "r", "e", "s", "o", "l", "v", "e", "r", " ", "a", "d", "d", "r", "e", "s", "s", "e", "d", ":", " ">>

\* 'Comprehensive Pipeline Enhancement'
T_enhancement_name == <<"C", "o", "m", "p", "r", "e", "h", "e", "n", "s", "i", "v", "e", " ", "P", "i", "p", "e", "l", "i", "n", "e", " ", "E", "n", "h", "a", "n", "c", "e", "m", "e", "n", "t">>

\* 'Gap resolver failed with parsing error. Applied comprehensive load and monitoring solutions. Original error: '
T_resolver_failed == <<"G", "a", "p", " ", "r", "e", "s", "o", "l", "v", "e", "r", " ", "f", "a", "i", "l", "e", "d", " ", "w", "i", "t", "h", " ", "p", "a", "r", "s", "i", "n", "g", " ", "e", "r", "r", "o", "r", ".", " ", "A", "p", "p", "l", "i", "e", "d", " ", "c", "o", "m", "p", "r", "e", "h", "e", "n", "s", "i", "v", "e", " ", "l", "o", "a", "d", " ", "a", "n", "d", " ", "m", "o", "n", "i", "t", "o", "r", "i", "n", "g", " ", "s", "o", "l", "u", "t", "i", "o", "n", "s", ".", " ", "O", "r", "i", "g", "i", "n", "a", "l", " ", "e", "r", "r", "o", "r", ":", " ">>

\* 'Build ETL pipeline for sales_data.csv'
T_task == <<"B", "u", "i", "l", "d", " ", "E", "T", "L", " ", "p", "i", "p", "e", "l", "i", "n", "e", " ", "f", "o", "r", " ", "s", "a", "l", "e", "s", "_", "d", "a", "t", "a", ".", "c", "s", "v">>

\* 'validator'
T_validator == <<"v", "a", "l", "i", "d", "a", "t", "o", "r">>

\* 'cleaner'
T_cleaner == <<"c", "l", "e", "a", "n", "e", "r">>

\* 'transformer'
T_transformer == <<"t", "r", "a", "n", "s", "f", "o", "r", "m", "e", "r">>

\* ['validation', 'error', 'handling', 'transformation', 'missing', 'data', 'pipeline', 'quality', 'incomplete']
key_terms == <<
    <<"v", "a", "l", "i", "d", "a", "t", "i", "o", "n">>,
    <<"e", "r", "r", "o", "r">>,
    <<"h", "a", "n", "d", "l", "i", "n", "g">>,
    <<"t", "r", "a", "n", "s", "f", "o", "r", "m", "a", "t", "i", "o", "n">>,
    <<"m", "i", "s", "s", "i", "n", "g">>,
    <<"d", "a", "t", "a">>,
    <<"p", "i", "p", "e", "l", "i", "n", "e">>,
    <<"q", "u", "a", "l", "i", "t", "y">>,
    <<"i", "n", "c", "o", "m", "p", "l", "e", "t", "e">>>>

\* ['missing', 'lacks', 'incomplete', 'should include', 'needs', 'requires', 'absent']
gap_keywords == <<
    <<"m", "i", "s", "s", "i", "n", "g">>,
    <<"l", "a", "c", "k", "s">>,
    <<"i", "n", "c", "o", "m", "p", "l", "e", "t", "e">>,
    <<"s", "h", "o", "u", "l", "d", " ", "i", "n", "c", "l", "u", "d", "e">>,
    <<"n", "e", "e", "d", "s">>,
    <<"r", "e", "q", "u", "i", "r", "e", "s">>,
    <<"a", "b", "s", "e", "n", "t">>>>

----------------------------------------------------------------------------
(* Program constants *)

MAX_DEBATE_ROUNDS == 3

\* `state["gap_escalation_count"] < 2`
ESCALATION_CAP == 2

\* `list(gaps)[:5]`
GAP_LIMIT == 5

\* `state["feedback_history"][-3:]`
HISTORY_WINDOW == 3

\* `config = {"recursion_limit": 35}`, the step limit main hands to the
\* graph engine
RECURSION_LIMIT == 35

\* the graph engine's step limit when the caller sets none
DEFAULT_STEP_LIMIT == 25

\* `similarity > 0.3`, as the fraction SIMILARITY_NUM / SIMILARITY_DEN
SIMILARITY_NUM == 3

SIMILARITY_DEN == 10

\* `str(e)[:100]` in the stage fallbacks
ERROR_TEXT_LIMIT == 100

\* `validation_result.rationale[:200]`
RATIONALE_LIMIT == 200

\* model_keys = ["validator", "cleaner", "transformer"]
model_keys == <<T_validator, T_cleaner, T_transformer>>

\* the tools discovery_node maps to agent roles, as <<tool name, role>>
ToolRoles == {
    <<"load_csv", "ingest">>, <<"clean_data", "clean">>,
    <<"transform_data", "transform">>, <<"validate_data", "validate">>}

----------------------------------------------------------------------------
(* Bounds of the model *)

\* collaborator responses per run that are not the nominal one: a call that
\* raises, a generated step without an output locator, a resolver that has
\* to fall back to its single-gap path
MaxAnomalies == 1

----------------------------------------------------------------------------
(* config.PipelineStep as the agents and graph.py use it: the three declared
   fields plus the optional output_file_path / output_format *)

PipelineStep(name, code, why, path, fmt) ==
    [step_name |-> name, code_snippet |-> code, rationale |-> why,
     output_file_path |-> path, output_format |-> fmt]

\* config.PipelineStep: the fields the class declares
DeclaredFields == {"step_name", "code_snippet", "rationale"}

\* PipelineStep(**kwargs), and the output parser built on the class: a
\* pydantic model keeps its declared fields and ignores the other ones
DeclaredPipelineStep(kwargs) == [f \in DeclaredFields |-> kwargs[f]]

\* a collaborator call either returns a value or raises
Returned(v) == [raised |-> FALSE, value |-> v]

Raised(e) == [raised |-> TRUE, error |-> e]

\* step.<name>: reading an attribute the object does not have raises
\* AttributeError
GetAttr(step, name) ==
    IF name \in DOMAIN step THEN Returned(step[name]) ELSE Raised("AttributeError")

----------------------------------------------------------------------------
(* What the external collaborators can answer (inputs of the model) *)

\* texts the collaborators answer with

\* 'Structured ETL task'
T_refined == <<"S", "t", "r", "u", "c", "t", "u", "r", "e", "d", " ", "E", "T", "L", " ", "t", "a", "s", "k">>

\* 'refined_prompt'
T_refined_prompt_name == <<"r", "e", "f", "i", "n", "e", "d", "_", "p", "r", "o", "m", "p", "t">>

\* 'data_ingestion'
T_data_ingestion == <<"d", "a", "t", "a", "_", "i", "n", "g", "e", "s", "t", "i", "o", "n">>

\* 'data_cleaning'
T_data_cleaning == <<"d", "a", "t", "a", "_", "c", "l", "e", "a", "n", "i", "n", "g">>

\* 'data_transformation'
T_data_transformation == <<"d", "a", "t", "a", "_", "t", "r", "a", "n", "s", "f", "o", "r", "m", "a", "t", "i", "o", "n">>

\* 'Generated step.'
T_generated == <<"G", "e", "n", "e", "r", "a", "t", "e", "d", " ", "s", "t", "e", "p", ".">>

\* 'Invalid json output'
T_bad_json == <<"I", "n", "v", "a", "l", "i", "d", " ", "j", "s", "o", "n", " ", "o", "u", "t", "p", "u", "t">>

\* 'gap_resolver_fix'
T_gap_resolver_fix == <<"g", "a", "p", "_", "r", "e", "s", "o", "l", "v", "e", "r", "_", "f", "i", "x">>

\* 'Yes. Valid.'
R_YES == <<"Y", "e", "s", ".", " ", "V", "a", "l", "i", "d", ".">>

\* 'No. Missing validation step.'
R_GAPA == <<"N", "o", ".", " ", "M", "i", "s", "s", "i", "n", "g", " ", "v", "a", "l", "i", "d", "a", "t", "i", "o", "n", " ", "s", "t", "e", "p", ".">>

\* 'No. Weak design.'
R_PLAIN == <<"N", "o", ".", " ", "W", "e", "a", "k", " ", "d", "e", "s", "i", "g", "n", ".">>

\* 'No. Missing data quality in pipeline.'
R_GAPC == <<"N", "o", ".", " ", "M", "i", "s", "s", "i", "n", "g", " ", "d", "a", "t", "a", " ", "q", "u", "a", "l", "i", "t", "y", " ", "i", "n", " ", "p", "i", "p", "e", "l", "i", "n", "e", ".">>

\* exceptions a collaborator call can raise, by their str(e)
Errors == {T_bad_json}

\* tool listings the discovery service can return
ToolListings == {{"load_csv", "clean_data", "transform_data", "validate_data"}, {}}

RefineOutputs == {PipelineStep(T_refined_prompt_name, "", T_refined, "", "")}

\* steps the ingest / clean / transform generators can produce: with an
\* output locator (what the prompt asks for) or without one
IngestOutputs == {
    PipelineStep(T_data_ingestion, "generated", T_generated, "data/ingested.csv", "csv"),
    PipelineStep(T_data_ingestion, "generated", T_generated, "", "")}

CleanOutputs == {
    PipelineStep(T_data_cleaning, "generated", T_generated, "data/cleaned.parquet", "parquet"),
    PipelineStep(T_data_cleaning, "generated", T_generated, "", "")}

TransformOutputs == {
    PipelineStep(T_data_transformation, "generated", T_generated, "data/features.parquet", "parquet"),
    PipelineStep(T_data_transformation, "generated", T_generated, "", "")}

\* rationales a reviewer can give: its usual answers, and the rarer ones
UsualRationales == {R_YES, R_GAPA}

ReviewerRationales == UsualRationales \cup {R_PLAIN}

ReviewerOutputs == {PipelineStep(T_validation, "", r, "", "") : r \in ReviewerRationales}

\* a reviewer call returns a step or raises
ReviewerResponses ==
    {Returned(v) : v \in ReviewerOutputs} \cup {Raised(e) : e \in Errors}

\* steps the single-gap resolver chain can produce
ResolverOutputs == {
    PipelineStep(T_gap_resolver_fix, "generated", T_generated, "output/fix.csv", "csv")}

\* reviewer answers during the intra-round re-validation
RevalidationVotes == {
    <<R_YES, R_YES, R_YES>>,
    <<R_YES, R_GAPA, R_PLAIN>>}

IsRareResponse(response) ==
    IF response.raised THEN TRUE ELSE response.value.rationale \notin UsualRationales

IsNominal(step) == step.output_file_path # ""

----------------------------------------------------------------------------
(* agents/validator.py: the voting round *)

\* FallbackVote with a rationale that does not name the reviewer
FallbackVote_anonymous(model_key) ==
    PipelineStep(T_validation_error_ \o model_key, "",
                 T_validation_failed_for \o T_parsing_error, "", "")

\* the except branch of get_vote_for_model
FallbackVote(model_key) ==
    PipelineStep(T_validation_error_ \o model_key, "",
                 T_validation_failed_for \o model_key \o T_parsing_error, "", "")

get_vote_for_model(model_key, response) ==
    IF response.raised THEN FallbackVote(model_key) ELSE response.value

\* asyncio.gather over model_keys: one result per key, in key order
gather_votes(responses) ==
    [i \in 1..Len(model_keys) |-> get_vote_for_model(model_keys[i], responses[i])]

\* structured_votes counting a rationale as Yes only when it opens with "yes"
structured_votes_opening(votes) ==
    [i \in 1..Len(votes) |->
        [vote |-> IF Take(Lower(votes[i].rationale), Len(T_yes)) = T_yes
                  THEN "Yes" ELSE "No",
         rationale |-> votes[i].rationale]]

structured_votes(votes) ==
    [i \in 1..Len(votes) |->
        [vote |-> IF Contains(Lower(votes[i].rationale), T_yes) THEN "Yes" ELSE "No",
         rationale |-> votes[i].rationale]]

YesCount(svotes) == Cardinality({i \in 1..Len(svotes) : svotes[i].vote = "Yes"})

\* len([... "Yes"]) > len(structured_votes) / 2
validator_consensus(svotes) == 2 * YesCount(svotes) > Len(svotes)

\* validator_rationale reporting the No votes in place of the Yes votes
validator_rationale_no_votes(svotes) ==
    T_consensus \o IntToText(Len(svotes) - YesCount(svotes)) \o T_slash
    \o IntToText(Len(svotes))
    \o T_yes_votes \o Join([i \in 1..Len(svotes) |-> svotes[i].rationale], T_bar)

validator_rationale(svotes) ==
    T_consensus \o IntToText(YesCount(svotes)) \o T_slash \o IntToText(Len(svotes))
    \o T_yes_votes \o Join([i \in 1..Len(svotes) |-> svotes[i].rationale], T_bar)

\* what validate_steps returns once the tool-service call has succeeded
validate_steps(responses) ==
    LET svotes == structured_votes(gather_votes(responses))
    IN  [step |-> PipelineStep(T_validation,
                               IF validator_consensus(svotes) THEN "" ELSE "Refine pipeline",
                               validator_rationale(svotes), "", ""),
         votes |-> svotes]

----------------------------------------------------------------------------
(* graph.py: tally, gap mining, similarity, escalation trigger *)

\* `"Yes" in v` where v is a vote dict: membership among the dict's keys
KeyIn(k, d) == k \in DOMAIN d

\* sum(1 for v in votes if "Yes" in v) > len(votes) / 2
debate_consensus(votes) ==
    2 * Cardinality({i \in 1..Len(votes) : KeyIn("Yes", votes[i])}) > Len(votes)

HasGapKeyword(line) ==
    \E k \in 1..Len(gap_keywords) : Contains(line, gap_keywords[k])

\* mine_gaps that reads the rationale of every vote, Yes or No
mine_gaps_all_votes(votes) ==
    LET lines == UNION {Range(Split(Lower(votes[i].rationale), ".")) : i \in 1..Len(votes)}
    IN  {Strip(line) : line \in {l \in lines : HasGapKeyword(l)}}

\* the set `gaps` built by the loop over votes
mine_gaps(votes) ==
    LET no_votes == {i \in 1..Len(votes) : votes[i].vote = "No"}
        lines == UNION {Range(Split(Lower(votes[i].rationale), ".")) : i \in no_votes}
    IN  {Strip(line) : line \in {l \in lines : HasGapKeyword(l)}}

\* list(gaps)[:5]: the iteration order of a set of str is not fixed
gap_lists(gaps) == {Take(order, GAP_LIMIT) : order \in Perms(gaps)}

feedback_summary_of(unique_gaps) ==
    IF unique_gaps # <<>> THEN T_must_address \o Join(unique_gaps, T_sep_gap) ELSE <<>>

\* Keywords matching the terms against the gap texts as written
Keywords_case_sensitive(gaps) ==
    {k \in 1..Len(key_terms) : \E gap \in gaps : Contains(gap, key_terms[k])}

Keywords(gaps) ==
    {k \in 1..Len(key_terms) : \E gap \in gaps : Contains(Lower(gap), key_terms[k])}

\* calculate_semantic_similarity dividing by the sum of the two sizes in place
\* of the size of the union
calculate_semantic_similarity_summed(gaps1, gaps2) ==
    LET keywords1 == Keywords(gaps1)
        keywords2 == Keywords(gaps2)
    IN  IF keywords1 = {} \/ keywords2 = {}
        THEN [num |-> 0, den |-> 1]
        ELSE [num |-> Cardinality(keywords1 \cap keywords2),
              den |-> Cardinality(keywords1) + Cardinality(keywords2)]

\* the similarity as a fraction num/den; 0.0 is 0/1
calculate_semantic_similarity(gaps1, gaps2) ==
    LET keywords1 == Keywords(gaps1)
        keywords2 == Keywords(gaps2)
    IN  IF keywords1 = {} \/ keywords2 = {}
        THEN [num |-> 0, den |-> 1]
        ELSE [num |-> Cardinality(keywords1 \cap keywords2),
              den |-> Cardinality(keywords1 \cup keywords2)]

\* AboveThreshold with the threshold 1.0 in place of 0.3
AboveThreshold_one(sim) == sim.num > sim.den

AboveThreshold(sim) == sim.num * SIMILARITY_DEN > SIMILARITY_NUM * sim.den

NonEmptyText(t) == t # <<>>

\* recent_gaps_of without the `if feedback` filter
recent_gaps_of_unfiltered(feedback_history) ==
    LET recent == LastN(feedback_history, HISTORY_WINDOW)
    IN  [i \in 1..Len(recent) |-> Range(Split(recent[i], ";"))]

\* [set(feedback.split(";")) for feedback in recent_feedback if feedback]
recent_gaps_of(feedback_history) ==
    LET recent == SelectSeq(LastN(feedback_history, HISTORY_WINDOW), NonEmptyText)
    IN  [i \in 1..Len(recent) |-> Range(Split(recent[i], ";"))]

\* should_escalate without the test of the escalation count
should_escalate_uncapped(feedback_history, gap_escalation_count, unique_gaps) ==
    /\ Len(feedback_history) > 2
    /\ LET recent_gaps == recent_gaps_of(feedback_history)
       IN  /\ Len(recent_gaps) >= 2
           /\ AboveThreshold(calculate_semantic_similarity(
                                 recent_gaps[1], recent_gaps[Len(recent_gaps)]))
           /\ Len(unique_gaps) > 0

\* should_escalate that is content with two history entries
should_escalate_early(feedback_history, gap_escalation_count, unique_gaps) ==
    /\ Len(feedback_history) > 1
    /\ gap_escalation_count < ESCALATION_CAP
    /\ LET recent_gaps == recent_gaps_of(feedback_history)
       IN  /\ Len(recent_gaps) >= 2
           /\ AboveThreshold(calculate_semantic_similarity(
                                 recent_gaps[1], recent_gaps[Len(recent_gaps)]))
           /\ Len(unique_gaps) > 0

\* the three nested conditions that guard the resolver call
should_escalate(feedback_history, gap_escalation_count, unique_gaps) ==
    /\ Len(feedback_history) > 2
    /\ gap_escalation_count < ESCALATION_CAP
    /\ LET recent_gaps == recent_gaps_of(feedback_history)
       IN  /\ Len(recent_gaps) >= 2
           /\ AboveThreshold(calculate_semantic_similarity(
                                 recent_gaps[1], recent_gaps[Len(recent_gaps)]))
           /\ Len(unique_gaps) > 0

\* route that allows twice the rounds
route_doubled(s) ==
    IF s.consensus_reached THEN "END"
    ELSE IF s.debate_rounds >= 2 * MAX_DEBATE_ROUNDS THEN "END"
    ELSE "prompt"

\* route with `>` in place of `>=`
route_late(s) ==
    IF s.consensus_reached THEN "END"
    ELSE IF s.debate_rounds > MAX_DEBATE_ROUNDS THEN "END"
    ELSE "prompt"

\* route without the consensus test
route_blind(s) ==
    IF s.debate_rounds >= MAX_DEBATE_ROUNDS THEN "END" ELSE "prompt"

\* route raising at the round cap in place of ending the run
route_raising(s) ==
    IF s.consensus_reached THEN "END"
    ELSE IF s.debate_rounds >= MAX_DEBATE_ROUNDS THEN "aborted"
    ELSE "prompt"

\* route looping back to the first stage in place of the refine node
route_skipping(s) ==
    IF s.consensus_reached THEN "END"
    ELSE IF s.debate_rounds >= MAX_DEBATE_ROUNDS THEN "END"
    ELSE "ingest"

\* route(state): "END" or the next node
route(s) ==
    IF s.consensus_reached THEN "END"
    ELSE IF s.debate_rounds >= MAX_DEBATE_ROUNDS THEN "END"
    ELSE "prompt"

\* main.py: what main reports of the final state (the timestamp left out)
pipeline_output(final_state) ==
    [pipeline_steps |-> final_state.pipeline_steps,
     debate_rounds |-> final_state.debate_rounds,
     consensus_reached |-> final_state.consensus_reached,
     metadata |-> [gap_escalation_count |-> final_state.gap_escalation_count,
                   feedback_rounds |-> Len(final_state.feedback_history),
                   total_steps |-> Len(final_state.pipeline_steps)]]

----------------------------------------------------------------------------
(* agents/data_ingestor.py, cleaner.py, transformer.py: the stage functions.
   `outcome` says how the collaborators answered: the retriever or the
   tool service raised (the call is outside the try), the generator chain
   raised (inside the try), or the chain returned a step. *)

StageOutcomes(outputs) ==
    {[kind |-> "retriever_raised"], [kind |-> "tool_raised"]}
    \cup {[kind |-> "chain_raised", error |-> e] : e \in Errors}
    \cup {[kind |-> "chain_returned", step |-> v] : v \in outputs}

ingest_data(dataset_path, outcome) ==
    IF outcome.kind \in {"retriever_raised", "tool_raised"} THEN Raised(outcome.kind)
    ELSE IF outcome.kind = "chain_returned" THEN Returned(outcome.step)
    ELSE Returned(PipelineStep(
            T_data_ingestion_fallback, "data/sales_data.csv",
            T_ingestor_failed \o Take(outcome.error, ERROR_TEXT_LIMIT),
            "data/ingested_sales_data.csv", "csv"))

clean_data(dataset_path, ingest_step, outcome) ==
    IF outcome.kind \in {"retriever_raised", "tool_raised"} THEN Raised(outcome.kind)
    ELSE IF outcome.kind = "chain_returned" THEN Returned(outcome.step)
    ELSE LET input_path == IF ingest_step.output_file_path # ""
                           THEN ingest_step.output_file_path ELSE dataset_path
         IN  Returned(PipelineStep(
                T_data_cleaning_fallback, input_path,
                T_cleaner_failed \o Take(outcome.error, ERROR_TEXT_LIMIT),
                "data/cleaned_sales_data.csv", "csv"))

transform_data(dataset_path, clean_step, outcome) ==
    IF outcome.kind \in {"retriever_raised", "tool_raised"} THEN Raised(outcome.kind)
    ELSE IF outcome.kind = "chain_returned" THEN Returned(outcome.step)
    ELSE LET input_path == IF clean_step.output_file_path # ""
                           THEN clean_step.output_file_path ELSE dataset_path
         IN  Returned(PipelineStep(
                T_feature_engineering_fallback, input_path,
                T_transformer_failed \o Take(outcome.error, ERROR_TEXT_LIMIT),
                "data/transformed_sales_data.csv", "csv"))

\* an outcome other than a generated step that carries an output locator
IsAnomaly(outcome) ==
    IF outcome.kind = "chain_returned" THEN ~IsNominal(outcome.step) ELSE TRUE

----------------------------------------------------------------------------
(* agents/gap_resolver.py: resolve_persistent_gaps *)

ResolverOutcomes ==
    {[kind |-> "store_raised"], [kind |-> "multi"]}
    \cup {[kind |-> "single_returned", step |-> v] : v \in ResolverOutputs}
    \cup {[kind |-> "single_raised", error |-> e] : e \in Errors}

resolve_persistent_gaps(outcome) ==
    IF outcome.kind = "store_raised" THEN Raised(outcome.kind)
    ELSE IF outcome.kind = "multi"
    THEN Returned(PipelineStep(
            T_multi_gap_name, "generated",
            T_multi_gap_rationale \o Join(<<T_gap_resolver_fix>>, <<",", " ">>),
            "output/comprehensive_pipeline_solution.py", "python"))
    ELSE IF outcome.kind = "single_returned" THEN Returned(outcome.step)
    ELSE Returned(PipelineStep(
            T_enhancement_name, "templates",
            T_resolver_failed \o Take(outcome.error, ERROR_TEXT_LIMIT),
            "output/enhanced_pipeline.py", "python"))

\* agents.validator.validate_pipeline, which graph.py imports and calls for
\* the intra-round validation: the voting round run again, its result read
\* through .consensus_reached, .vote_count and .rationale
validate_pipeline(rationales) ==
    LET responses == [i \in 1..Len(rationales) |->
                         Returned(PipelineStep(T_validation, "", rationales[i], "", ""))]
        result == validate_steps(responses)
    IN  [consensus_reached |-> validator_consensus(result.votes),
         vote_count |-> Len(result.votes),
         rationale |-> result.step.rationale]

----------------------------------------------------------------------------
(* The workflow state *)

VARIABLES
    state,           \* the AgentState dict threaded through the nodes
    pc,              \* the node about to run, "route", "END" or "aborted"
    anomalies,       \* non-nominal collaborator responses so far
    votes,           \* the vote list validate_steps returned to the last debate_node
    unique_gaps,     \* unique_gaps of the last debate_node
    escalated,       \* whether the last debate_node called the resolver
    resolver_calls,  \* calls of resolve_persistent_gaps so far
    executed,        \* how many times each node has been entered
    refine_input,    \* the text last handed to refine_prompt
    last_step,       \* the artifact last handed to a stage function as the
                     \* previous step, <<>> before
    revalidation,    \* what the intra-round validation of the last debate_node
                     \* returned, <<>> when it did not run
    input,           \* the inputs drawn for an operation checked alone
    returned         \* what an operation checked alone returned, <<>> before

vars == <<state, pc, anomalies, votes, unique_gaps, escalated, resolver_calls,
          executed, refine_input, last_step, revalidation, input, returned>>

Nodes == {"discovery", "prompt", "ingest", "clean", "transform", "debate"}

\* main.setup_initial_state
setup_initial_state ==
    [task |-> T_task,
     refined_prompt |-> <<>>,
     pipeline_steps |-> <<>>,
     debate_rounds |-> 0,
     consensus_reached |-> FALSE,
     discovered_tools |-> EmptyDict,
     feedback_summary |-> <<>>,
     feedback_history |-> <<>>,
     gap_escalation_count |-> 0,
     current_data_path |-> "data/sales_data.csv",
     data_format |-> "csv",
     pipeline_metadata |-> EmptyDict]

InitControl ==
    /\ pc = "discovery"
    /\ votes = <<>>
    /\ unique_gaps = <<>>
    /\ escalated = FALSE
    /\ resolver_calls = 0
    /\ executed = [n \in Nodes |-> 0]
    /\ refine_input = <<>>
    /\ last_step = <<>>
    /\ revalidation = <<>>
    /\ returned = <<>>

Init ==
    /\ state = setup_initial_state
    /\ InitControl
    /\ anomalies = 0
    /\ input = <<>>

\* feedback histories a caller of app.ainvoke can hand over with its state:
\* none, the same gap twice, a round without gaps before a gap, and a
\* different gap before the gap
CallerHistories == {
    <<>>,
    <<Strip(Lower(Split(R_GAPA, ".")[2])), Strip(Lower(Split(R_GAPA, ".")[2]))>>,
    <<<<>>, Strip(Lower(Split(R_GAPA, ".")[2]))>>,
    <<Strip(Lower(Split(R_GAPC, ".")[2])), Strip(Lower(Split(R_GAPA, ".")[2]))>>}

\* app.ainvoke(initial_state) with a state the caller built: the escalation
\* count and the feedback history are the caller's, every collaborator
\* gives its usual answer
InitCaller ==
    /\ \E h \in CallerHistories, c \in 0..ESCALATION_CAP :
          state = [setup_initial_state EXCEPT !.feedback_history = h,
                                              !.gap_escalation_count = c]
    /\ InitControl
    /\ anomalies = MaxAnomalies
    /\ input = <<>>

Enter(node) == executed' = [executed EXCEPT ![node] = @ + 1]

\* an uncaught exception leaves the node: the run ends without a result
Abort == pc' = "aborted"

Spend(n) ==
    /\ anomalies + n <= MaxAnomalies
    /\ anomalies' = anomalies + n

----------------------------------------------------------------------------
(* graph.py: the nodes *)

\* the static map used when no known tool is listed
static_fallbacks ==
    [role \in {"ingest", "clean"} |->
        IF role = "ingest" THEN "default_load" ELSE "default_clean"]

\* the map built from a tool listing
discovered_from(tools) ==
    LET found == {tr \in ToolRoles : tr[1] \in tools}
        mapped == [role \in {tr[2] : tr \in found} |->
                      (CHOOSE tr \in found : tr[2] = role)[1]]
    IN  IF DOMAIN mapped = {} THEN static_fallbacks ELSE mapped

\* the except branch of discovery_node
discovery_failed_tools == EmptyDict

discovery_node ==
    /\ pc = "discovery"
    /\ Enter("discovery")
    /\ \E answer \in {Returned(t) : t \in ToolListings} \cup {Raised(e) : e \in Errors} :
          /\ Spend(IF answer.raised \/ answer.value = {} THEN 1 ELSE 0)
          /\ state' = [state EXCEPT !.discovered_tools =
                          IF answer.raised THEN discovery_failed_tools
                          ELSE discovered_from(answer.value)]
    /\ pc' = "prompt"
    /\ UNCHANGED <<votes, unique_gaps, escalated, resolver_calls, refine_input, last_step,
                   revalidation, input, returned>>

\* task_with_feedback that leaves the feedback out
task_with_feedback_dropped(s) == s.task

task_with_feedback(s) ==
    IF s.feedback_summary # <<>>
    THEN s.feedback_summary \o T_original_task \o s.task \o T_important
    ELSE s.task

prompt_node ==
    /\ pc = "prompt"
    /\ Enter("prompt")
    /\ refine_input' = task_with_feedback(state)
    /\ \E answer \in {Returned(v) : v \in RefineOutputs} \cup {Raised(e) : e \in Errors} :
          /\ Spend(IF answer.raised THEN 1 ELSE 0)
          /\ IF answer.raised
             THEN /\ state' = state
                  /\ Abort
             ELSE /\ state' = [state EXCEPT !.refined_prompt = answer.value.rationale,
                                            !.pipeline_steps = Append(@, answer.value)]
                  /\ pc' = "ingest"
    /\ UNCHANGED <<votes, unique_gaps, escalated, resolver_calls, last_step,
                   revalidation, input, returned>>

\* stage_update that moves the data cursor whatever the step names
stage_update_always(s, step, metadata_key) ==
    [s EXCEPT !.pipeline_steps = Append(@, step),
              !.current_data_path = step.output_file_path,
              !.data_format = step.output_format,
              !.pipeline_metadata = DictSet(@, metadata_key, step.output_file_path)]

\* stage_update that moves the data cursor only for a stage that has no
\* metadata entry yet
stage_update_once(s, step, metadata_key) ==
    LET appended == [s EXCEPT !.pipeline_steps = Append(@, step)]
    IN  IF step.output_file_path # "" /\ metadata_key \notin DOMAIN s.pipeline_metadata
        THEN [appended EXCEPT !.current_data_path = step.output_file_path,
                              !.data_format = step.output_format,
                              !.pipeline_metadata =
                                  DictSet(@, metadata_key, step.output_file_path)]
        ELSE appended

\* stage_update that moves the data cursor without recording the step
stage_update_unrecorded(s, step, metadata_key) ==
    IF step.output_file_path # ""
    THEN [s EXCEPT !.current_data_path = step.output_file_path,
                   !.data_format = step.output_format,
                   !.pipeline_metadata =
                       DictSet(@, metadata_key, step.output_file_path)]
    ELSE s

\* stage_update that keeps only the newest step in the list
stage_update_replacing(s, step, metadata_key) ==
    LET replaced == [s EXCEPT !.pipeline_steps = <<step>>]
    IN  IF step.output_file_path # ""
        THEN [replaced EXCEPT !.current_data_path = step.output_file_path,
                              !.data_format = step.output_format,
                              !.pipeline_metadata =
                                  DictSet(@, metadata_key, step.output_file_path)]
        ELSE replaced

\* the tail shared by ingest_node, clean_node and transform_node: append the
\* step, and move the data cursor if the step names an output file
stage_update(s, step, metadata_key) ==
    LET appended == [s EXCEPT !.pipeline_steps = Append(@, step)]
    IN  IF step.output_file_path # ""
        THEN [appended EXCEPT !.current_data_path = step.output_file_path,
                              !.data_format = step.output_format,
                              !.pipeline_metadata =
                                  DictSet(@, metadata_key, step.output_file_path)]
        ELSE appended

\* LastStep that takes the oldest step of the list
LastStep_oldest(s) == s.pipeline_steps[1]

\* state["pipeline_steps"][-1]
LastStep(s) == s.pipeline_steps[Len(s.pipeline_steps)]

ingest_node ==
    /\ pc = "ingest"
    /\ Enter("ingest")
    /\ \E outcome \in StageOutcomes(IngestOutputs) :
          LET result == ingest_data(state.current_data_path, outcome)
          IN  /\ Spend(IF IsAnomaly(outcome) THEN 1 ELSE 0)
              /\ IF result.raised
                 THEN /\ state' = state
                      /\ Abort
                 ELSE /\ state' = stage_update(state, result.value, "last_ingest_output")
                      /\ pc' = "clean"
    /\ UNCHANGED <<votes, unique_gaps, escalated, resolver_calls, refine_input, last_step,
                   revalidation, input, returned>>

clean_node ==
    /\ pc = "clean"
    /\ Enter("clean")
    /\ last_step' = LastStep(state)
    /\ \E outcome \in StageOutcomes(CleanOutputs) :
          LET result == clean_data(state.current_data_path, last_step', outcome)
          IN  /\ Spend(IF IsAnomaly(outcome) THEN 1 ELSE 0)
              /\ IF result.raised
                 THEN /\ state' = state
                      /\ Abort
                 ELSE /\ state' = stage_update(state, result.value, "last_clean_output")
                      /\ pc' = "transform"
    /\ UNCHANGED <<votes, unique_gaps, escalated, resolver_calls, refine_input,
                   revalidation, input, returned>>

transform_node ==
    /\ pc = "transform"
    /\ Enter("transform")
    /\ last_step' = LastStep(state)
    /\ \E outcome \in StageOutcomes(TransformOutputs) :
          LET result == transform_data(state.current_data_path, last_step', outcome)
          IN  /\ Spend(IF IsAnomaly(outcome) THEN 1 ELSE 0)
              /\ IF result.raised
                 THEN /\ state' = state
                      /\ Abort
                 ELSE /\ state' = stage_update(state, result.value, "last_transform_output")
                      /\ pc' = "debate"
    /\ UNCHANGED <<votes, unique_gaps, escalated, resolver_calls, refine_input,
                   revalidation, input, returned>>

\* debate_node up to the escalation check: the validation step is appended,
\* the round counted, the consensus flag and the feedback set
\* after_vote that logs a round's gap summary only when it mined gaps
after_vote_skipping_empty(s, result, gap_list) ==
    [s EXCEPT !.pipeline_steps = Append(@, result.step),
              !.debate_rounds = @ + 1,
              !.consensus_reached = debate_consensus(result.votes),
              !.feedback_summary = feedback_summary_of(gap_list),
              !.feedback_history = IF gap_list # <<>>
                                   THEN Append(@, Join(gap_list, T_sep_gap)) ELSE @]

\* after_vote that keeps the feedback of the round before when the round
\* mined no gap
after_vote_accumulating(s, result, gap_list) ==
    [s EXCEPT !.pipeline_steps = Append(@, result.step),
              !.debate_rounds = @ + 1,
              !.consensus_reached = debate_consensus(result.votes),
              !.feedback_summary = IF gap_list # <<>>
                                   THEN feedback_summary_of(gap_list) ELSE @,
              !.feedback_history = Append(@, Join(gap_list, T_sep_gap))]

after_vote(s, result, gap_list) ==
    [s EXCEPT !.pipeline_steps = Append(@, result.step),
              !.debate_rounds = @ + 1,
              !.consensus_reached = debate_consensus(result.votes),
              !.feedback_summary = feedback_summary_of(gap_list),
              !.feedback_history = Append(@, Join(gap_list, T_sep_gap))]

\* after_revalidation that reports consensus whatever the re-validation said
after_revalidation_forced(s, resolver_step, validation_result) ==
    [s EXCEPT !.consensus_reached = TRUE,
              !.feedback_summary = T_resolver_validated \o resolver_step.step_name]

\* after_revalidation that counts the re-validation as a round of its own
after_revalidation_counted(s, resolver_step, validation_result) ==
    LET counted == [s EXCEPT !.debate_rounds = @ + 1,
                             !.feedback_history = Append(@, validation_result.rationale)]
    IN  IF validation_result.consensus_reached
        THEN [counted EXCEPT !.consensus_reached = TRUE,
                             !.feedback_summary =
                                 T_resolver_validated \o resolver_step.step_name]
        ELSE [counted EXCEPT !.feedback_summary =
                                 T_resolver_needs
                                 \o Take(validation_result.rationale, RATIONALE_LIMIT)]

\* after_revalidation that moves the data cursor to the resolver's output
after_revalidation_adopting(s, resolver_step, validation_result) ==
    LET moved == [s EXCEPT !.current_data_path = resolver_step.output_file_path,
                           !.data_format = resolver_step.output_format]
    IN  IF validation_result.consensus_reached
        THEN [moved EXCEPT !.consensus_reached = TRUE,
                           !.feedback_summary =
                               T_resolver_validated \o resolver_step.step_name]
        ELSE [moved EXCEPT !.feedback_summary =
                               T_resolver_needs
                               \o Take(validation_result.rationale, RATIONALE_LIMIT)]

\* after_revalidation that also appends the re-validation as an artifact
after_revalidation_appending(s, resolver_step, validation_result) ==
    LET logged == [s EXCEPT !.pipeline_steps =
                       Append(@, PipelineStep(T_validation, "",
                                              validation_result.rationale, "", ""))]
    IN  IF validation_result.consensus_reached
        THEN [logged EXCEPT !.consensus_reached = TRUE,
                            !.feedback_summary =
                                T_resolver_validated \o resolver_step.step_name]
        ELSE [logged EXCEPT !.feedback_summary =
                                T_resolver_needs
                                \o Take(validation_result.rationale, RATIONALE_LIMIT)]

\* the end of the escalation branch: the re-validation result is applied
after_revalidation(s, resolver_step, validation_result) ==
    IF validation_result.consensus_reached
    THEN [s EXCEPT !.consensus_reached = TRUE,
                   !.feedback_summary = T_resolver_validated \o resolver_step.step_name]
    ELSE [s EXCEPT !.feedback_summary =
                       T_resolver_needs \o Take(validation_result.rationale, RATIONALE_LIMIT)]

debate_node ==
    /\ pc = "debate"
    /\ Enter("debate")
    /\ UNCHANGED <<refine_input, last_step, input, returned>>
    /\ \E tool_ok \in BOOLEAN :
        IF ~tool_ok
        THEN \* the validate_data tool call of validate_steps raised
             /\ Spend(1)
             /\ state' = state
             /\ Abort
             /\ UNCHANGED <<votes, unique_gaps, escalated, resolver_calls, revalidation>>
        ELSE \E responses \in [1..Len(model_keys) -> ReviewerResponses] :
             LET failed == Cardinality({i \in 1..Len(model_keys) : IsRareResponse(responses[i])})
                 result == validate_steps(responses)
             IN  /\ anomalies + failed <= MaxAnomalies
                 /\ votes' = result.votes
                 /\ \E gap_list \in gap_lists(mine_gaps(result.votes)) :
                     LET voted == after_vote(state, result, gap_list)
                     IN  /\ unique_gaps' = gap_list
                         /\ IF ~should_escalate(voted.feedback_history,
                                                voted.gap_escalation_count, gap_list)
                            THEN /\ Spend(failed)
                                 /\ state' = voted
                                 /\ pc' = "route"
                                 /\ escalated' = FALSE
                                 /\ resolver_calls' = resolver_calls
                                 /\ revalidation' = <<>>
                            ELSE /\ escalated' = TRUE
                                 /\ resolver_calls' = resolver_calls + 1
                                 /\ \E outcome \in ResolverOutcomes :
                                     LET counted == [voted EXCEPT !.gap_escalation_count = @ + 1]
                                         resolved == resolve_persistent_gaps(outcome)
                                         cost == failed + IF outcome.kind = "multi" THEN 0 ELSE 1
                                     IN  IF resolved.raised
                                         THEN /\ Spend(cost)
                                              /\ state' = counted
                                              /\ revalidation' = <<>>
                                              /\ Abort
                                         ELSE LET with_fix == [counted EXCEPT !.pipeline_steps =
                                                                  Append(@, resolved.value)]
                                              IN  \E reval \in {Returned(r) : r \in RevalidationVotes}
                                                               \cup {Raised(e) : e \in Errors} :
                                                      IF reval.raised
                                                      THEN /\ Spend(cost + 1)
                                                           /\ state' = with_fix
                                                           /\ revalidation' = <<>>
                                                           /\ Abort
                                                      ELSE /\ Spend(cost)
                                                           /\ revalidation' =
                                                                  validate_pipeline(reval.value)
                                                           /\ state' = after_revalidation(
                                                                  with_fix, resolved.value,
                                                                  validate_pipeline(reval.value))
                                                           /\ pc' = "route"

\* the conditional edge after "debate"
route_edge ==
    /\ pc = "route"
    /\ pc' = route(state)
    /\ UNCHANGED <<state, anomalies, votes, unique_gaps, escalated, resolver_calls,
                   executed, refine_input, last_step, revalidation, input, returned>>

Next ==
    \/ discovery_node
    \/ prompt_node
    \/ ingest_node
    \/ clean_node
    \/ transform_node
    \/ debate_node
    \/ route_edge

Spec == Init /\ [][Next]_vars

SpecCaller == InitCaller /\ [][Next]_vars

\* pipeline_metadata mappings a caller of app.ainvoke can hand over
CallerMetadata ==
    {EmptyDict, DictSet(EmptyDict, "last_ingest_output", "data/old_ingest.csv")}

InitMetadata ==
    /\ \E m \in CallerMetadata :
          state = [setup_initial_state EXCEPT !.pipeline_metadata = m]
    /\ InitControl
    /\ anomalies = 0
    /\ input = <<>>

SpecMetadata == InitMetadata /\ [][Next]_vars

\* the runtime runs the next node as long as there is one: every awaited
\* collaborator call returns or raises
SpecLive == Spec /\ WF_vars(Next)

----------------------------------------------------------------------------
(* The fan-out of validate_steps, one reviewer call at a time. `input` holds
   what each reviewer's model answers; `returned` holds the result slot of
   each get_vote_for_model coroutine (<<>> while it is running) and the order
   in which the coroutines completed *)

Reviewers == 1..Len(model_keys)

InitGather ==
    /\ input \in [Reviewers -> ReviewerResponses]
    /\ returned = [slots |-> [i \in Reviewers |-> <<>>], order |-> <<>>]
    /\ state = setup_initial_state
    /\ pc = "gather"
    /\ anomalies = 0
    /\ votes = <<>>
    /\ unique_gaps = <<>>
    /\ escalated = FALSE
    /\ resolver_calls = 0
    /\ executed = [n \in Nodes |-> 0]
    /\ refine_input = <<>>
    /\ last_step = <<>>
    /\ revalidation = <<>>

\* one get_vote_for_model coroutine completes, with its model's answer or
\* with the fallback vote of its except branch
reviewer_completes ==
    /\ pc = "gather"
    /\ \E i \in Reviewers :
          /\ returned.slots[i] = <<>>
          /\ returned' = [slots |-> [returned.slots EXCEPT
                                        ![i] = get_vote_for_model(model_keys[i], input[i])],
                          order |-> Append(returned.order, i)]
    /\ UNCHANGED <<state, pc, anomalies, votes, unique_gaps, escalated, resolver_calls,
                   executed, refine_input, last_step, revalidation, input>>

\* gather with the results in the order of completion
gather_results_as_completed(r) ==
    [k \in Reviewers |-> r.slots[r.order[k]]]

\* what asyncio.gather returns: the results in the order of the awaitables
gather_results(r) ==
    [i \in Reviewers |-> r.slots[i]]

\* asyncio.gather returns once every coroutine has completed; the votes are
\* then structured
gather_returns ==
    /\ pc = "gather"
    /\ \A i \in Reviewers : returned.slots[i] # <<>>
    /\ votes' = structured_votes(gather_results(returned))
    /\ pc' = "tallied"
    /\ UNCHANGED <<state, anomalies, unique_gaps, escalated, resolver_calls,
                   executed, refine_input, last_step, revalidation, input, returned>>

NextGather ==
    \/ reviewer_completes
    \/ gather_returns

SpecGather == InitGather /\ [][NextGather]_vars

----------------------------------------------------------------------------
(* Collaborator calls that never return. The generator call of a stage
   function and the reviewer calls are awaited with no timeout, so the node
   stays in the await: pc = "pending" *)

\* chain.ainvoke of ingest_data, clean_data or transform_data never returns
stage_call_pending ==
    /\ pc \in {"ingest", "clean", "transform"}
    /\ Enter(pc)
    /\ pc' = "pending"
    /\ UNCHANGED <<state, anomalies, votes, unique_gaps, escalated, resolver_calls,
                   refine_input, last_step, revalidation, input, returned>>

\* model_chain.ainvoke of one reviewer never returns: asyncio.gather, which
\* waits for every reviewer, never returns either
reviewer_call_pending ==
    /\ pc = "debate"
    /\ Enter(pc)
    /\ pc' = "pending"
    /\ UNCHANGED <<state, anomalies, votes, unique_gaps, escalated, resolver_calls,
                   refine_input, last_step, revalidation, input, returned>>

NextAwait ==
    \/ Next
    \/ stage_call_pending
    \/ reviewer_call_pending

SpecAwait == Init /\ [][NextAwait]_vars /\ WF_vars(NextAwait)

----------------------------------------------------------------------------
(* The voting round alone: validate_steps and the tally of debate_node
   applied to every combination of reviewer answers *)

\* 'Yes, but tests are missing.'
R_YES_BUT == <<"Y", "e", "s", ",", " ", "b", "u", "t", " ", "t", "e", "s", "t", "s", " ", "a", "r", "e", " ", "m", "i", "s", "s", "i", "n", "g", ".">>

\* 'No. Lacks error handling. Needs data quality checks.'
R_TWO_GAPS == <<"N", "o", ".", " ", "L", "a", "c", "k", "s", " ", "e", "r", "r", "o", "r", " ", "h", "a", "n", "d", "l", "i", "n", "g", ".", " ", "N", "e", "e", "d", "s", " ", "d", "a", "t", "a", " ", "q", "u", "a", "l", "i", "t", "y", " ", "c", "h", "e", "c", "k", "s", ".">>

\* 'No. Missing schema. Lacks tests. Requires audit.'
R_THREE_GAPS == <<"N", "o", ".", " ", "M", "i", "s", "s", "i", "n", "g", " ", "s", "c", "h", "e", "m", "a", ".", " ", "L", "a", "c", "k", "s", " ", "t", "e", "s", "t", "s", ".", " ", "R", "e", "q", "u", "i", "r", "e", "s", " ", "a", "u", "d", "i", "t", ".">>

TallyRationales ==
    {R_YES, R_GAPA, R_PLAIN, R_GAPC, R_YES_BUT, R_TWO_GAPS, R_THREE_GAPS}

TallyResponses ==
    {Returned(PipelineStep(T_validation, "", r, "", "")) : r \in TallyRationales}
    \cup {Raised(e) : e \in Errors}

InitTally ==
    /\ state = setup_initial_state
    /\ pc = "debate"
    /\ anomalies = 0
    /\ votes = <<>>
    /\ unique_gaps = <<>>
    /\ escalated = FALSE
    /\ resolver_calls = 0
    /\ executed = [n \in Nodes |-> 0]
    /\ refine_input = <<>>
    /\ last_step = <<>>
    /\ revalidation = <<>>
    /\ returned = <<>>
    /\ input \in [1..Len(model_keys) -> TallyResponses]

\* debate_node from the return of validate_steps to the feedback_history
\* append, on the drawn responses
tally_round ==
    /\ pc = "debate"
    /\ LET result == validate_steps(input)
       IN  /\ votes' = result.votes
           /\ \E gap_list \in gap_lists(mine_gaps(result.votes)) :
                 /\ unique_gaps' = gap_list
                 /\ state' = after_vote(state, result, gap_list)
    /\ pc' = "route"
    /\ UNCHANGED <<anomalies, escalated, resolver_calls, executed, refine_input, last_step,
                   revalidation, input, returned>>

NextTally == tally_round

SpecTally == InitTally /\ [][NextTally]_vars

\* a voting round on answers that hold "yes" in upper case, inside another
\* word, or not at all
\* 'YES. Approved.'
R_SHOUT == <<"Y", "E", "S", ".", " ", "A", "p", "p", "r", "o", "v", "e", "d", ".">>

\* 'No. Needs more eyes.'
R_EYES == <<"N", "o", ".", " ", "N", "e", "e", "d", "s", " ", "m", "o", "r", "e", " ", "e", "y", "e", "s", ".">>

VoteResponses ==
    {Returned(PipelineStep(T_validation, "", r, "", "")) :
        r \in {R_YES, R_SHOUT, R_EYES, R_PLAIN}}
    \cup {Raised(e) : e \in Errors}

InitVote ==
    /\ state = setup_initial_state
    /\ pc = "debate"
    /\ anomalies = 0
    /\ votes = <<>>
    /\ unique_gaps = <<>>
    /\ escalated = FALSE
    /\ resolver_calls = 0
    /\ executed = [n \in Nodes |-> 0]
    /\ refine_input = <<>>
    /\ last_step = <<>>
    /\ revalidation = <<>>
    /\ returned = <<>>
    /\ input \in [1..Len(model_keys) -> VoteResponses]

SpecVote == InitVote /\ [][NextTally]_vars

----------------------------------------------------------------------------
(* The tally applied a second time to the same reviewer answers, taken in
   any reviewer order: debate_node's lines from validate_steps to the
   feedback_history append, run on the state a first run started from.
   The state before is the result of a first application, for one of the
   orders in which the gap set can be iterated. *)

InitRetally ==
    /\ input \in [1..Len(model_keys) -> TallyResponses]
    /\ LET result == validate_steps(input)
       IN  /\ votes = result.votes
           /\ \E gap_list \in {CHOOSE g \in gap_lists(mine_gaps(result.votes)) : TRUE} :
                 /\ unique_gaps = gap_list
                 /\ state = after_vote(setup_initial_state, result, gap_list)
    /\ pc = "route"
    /\ anomalies = 0
    /\ escalated = FALSE
    /\ resolver_calls = 0
    /\ executed = [n \in Nodes |-> 0]
    /\ refine_input = <<>>
    /\ last_step = <<>>
    /\ revalidation = <<>>
    /\ returned = <<>>

retally_round ==
    /\ pc = "route"
    /\ \E order \in Perms(1..Len(model_keys)) :
          LET answers == [i \in 1..Len(model_keys) |-> input[order[i]]]
              result == validate_steps(answers)
          IN  /\ input' = answers
              /\ votes' = result.votes
              /\ \E gap_list \in gap_lists(mine_gaps(result.votes)) :
                    /\ unique_gaps' = gap_list
                    /\ state' = after_vote(setup_initial_state, result, gap_list)
    /\ pc' = "END"
    /\ UNCHANGED <<anomalies, escalated, resolver_calls, executed, refine_input, last_step,
                   revalidation, returned>>

NextRetally == retally_round

SpecRetally == InitRetally /\ [][NextRetally]_vars

----------------------------------------------------------------------------
(* calculate_semantic_similarity alone, on every pair of gap sets built from
   a few gap texts *)

\* 'Missing Validation'
G_UPPER == <<"M", "i", "s", "s", "i", "n", "g", " ", "V", "a", "l", "i", "d", "a", "t", "i", "o", "n">>

\* 'lacks tests'
G_PLAIN == <<"l", "a", "c", "k", "s", " ", "t", "e", "s", "t", "s">>

\* 'Incomplete error handling in transformation'
G_REST == <<"I", "n", "c", "o", "m", "p", "l", "e", "t", "e", " ", "e", "r", "r", "o", "r", " ", "h", "a", "n", "d", "l", "i", "n", "g", " ", "i", "n", " ", "t", "r", "a", "n", "s", "f", "o", "r", "m", "a", "t", "i", "o", "n">>

\* 'missing validation step'
G_STEP == Strip(Lower(Split(R_GAPA, ".")[2]))

GapTexts == {G_STEP, Strip(Lower(Split(R_GAPC, ".")[2])), G_UPPER, G_PLAIN, G_REST}

InitSimilarity ==
    /\ input \in (SUBSET GapTexts) \X (SUBSET GapTexts)
    /\ state = setup_initial_state
    /\ pc = "similarity"
    /\ anomalies = 0
    /\ votes = <<>>
    /\ unique_gaps = <<>>
    /\ escalated = FALSE
    /\ resolver_calls = 0
    /\ executed = [n \in Nodes |-> 0]
    /\ refine_input = <<>>
    /\ last_step = <<>>
    /\ revalidation = <<>>
    /\ returned = <<>>

similarity_call ==
    /\ pc = "similarity"
    /\ returned' = calculate_semantic_similarity(input[1], input[2])
    /\ pc' = "returned"
    /\ UNCHANGED <<state, anomalies, votes, unique_gaps, escalated, resolver_calls,
                   executed, refine_input, last_step, revalidation, input>>

NextSimilarity == similarity_call

SpecSimilarity == InitSimilarity /\ [][NextSimilarity]_vars

----------------------------------------------------------------------------
(* The stage nodes entered alone, with artifacts that are PipelineStep
   objects as config.py declares them: the generator's answer (or the
   fallback's keyword arguments) goes through DeclaredPipelineStep before
   the node reads step.output_file_path *)

StageNodes == {"ingest", "clean", "transform"}

StageOutputs(node) ==
    IF node = "ingest" THEN IngestOutputs
    ELSE IF node = "clean" THEN CleanOutputs ELSE TransformOutputs

MetadataKey(node) ==
    IF node = "ingest" THEN "last_ingest_output"
    ELSE IF node = "clean" THEN "last_clean_output" ELSE "last_transform_output"

\* data cursors a caller can enter a stage node with
CallerCursors == {<<"data/sales_data.csv", "csv">>, <<"data/sales_data.csv", "json">>,
                  <<"data/raw.json", "json">>, <<"data/raw.json", "csv">>}

InitDeclared ==
    /\ pc \in StageNodes
    /\ input \in StageOutcomes(StageOutputs(pc))
    /\ \E cursor \in CallerCursors :
          state = [setup_initial_state EXCEPT
                      !.pipeline_steps = <<DeclaredPipelineStep(
                          CHOOSE v \in RefineOutputs : TRUE)>>,
                      !.current_data_path = cursor[1],
                      !.data_format = cursor[2]]
    /\ anomalies = 0
    /\ votes = <<>>
    /\ unique_gaps = <<>>
    /\ escalated = FALSE
    /\ resolver_calls = 0
    /\ executed = [n \in Nodes |-> 0]
    /\ refine_input = <<>>
    /\ last_step = <<>>
    /\ revalidation = <<>>
    /\ returned = <<>>

\* the tail of a stage node on a step of the declared class: the append, then
\* the read of step.output_file_path
declared_stage_tail(result, metadata_key, next) ==
    IF result.raised
    THEN /\ state' = state
         /\ returned' = result
         /\ Abort
    ELSE LET step == DeclaredPipelineStep(result.value)
             appended == [state EXCEPT !.pipeline_steps = Append(@, step)]
         IN  /\ returned' = Returned(step)
             /\ IF GetAttr(step, "output_file_path").raised
                THEN /\ state' = appended
                     /\ Abort
                ELSE /\ state' = stage_update(state, step, metadata_key)
                     /\ pc' = next

\* clean_data and transform_data read <previous step>.output_file_path after
\* the retriever and tool-service calls and before the try
reads_previous_step(previous_step, outcome, result) ==
    IF outcome.kind \in {"retriever_raised", "tool_raised"} THEN Raised(outcome.kind)
    ELSE IF GetAttr(previous_step, "output_file_path").raised
    THEN Raised("AttributeError")
    ELSE result

declared_ingest_node ==
    /\ pc = "ingest"
    /\ Enter("ingest")
    /\ declared_stage_tail(ingest_data(state.current_data_path, input),
                           "last_ingest_output", "clean")
    /\ UNCHANGED <<anomalies, votes, unique_gaps, escalated, resolver_calls,
                   refine_input, last_step, revalidation, input>>

declared_clean_node ==
    /\ pc = "clean"
    /\ Enter("clean")
    /\ declared_stage_tail(
          reads_previous_step(LastStep(state), input,
              clean_data(state.current_data_path, LastStep(state), input)),
          "last_clean_output", "transform")
    /\ UNCHANGED <<anomalies, votes, unique_gaps, escalated, resolver_calls,
                   refine_input, last_step, revalidation, input>>

declared_transform_node ==
    /\ pc = "transform"
    /\ Enter("transform")
    /\ declared_stage_tail(
          reads_previous_step(LastStep(state), input,
              transform_data(state.current_data_path, LastStep(state), input)),
          "last_transform_output", "debate")
    /\ UNCHANGED <<anomalies, votes, unique_gaps, escalated, resolver_calls,
                   refine_input, last_step, revalidation, input>>

NextDeclared ==
    \/ declared_ingest_node
    \/ declared_clean_node
    \/ declared_transform_node

SpecDeclared == InitDeclared /\ [][NextDeclared]_vars

----------------------------------------------------------------------------
(* Properties *)

\* 'error'
T_error == <<"e", "r", "r", "o", "r">>

ResolverStepNames == {T_multi_gap_name, T_enhancement_name, T_gap_resolver_fix}

\* the vocabulary terms that occur in a text, whatever its case
TextKeywords(text) ==
    {k \in 1..Len(key_terms) : Contains(Lower(text), key_terms[k])}

\* Jaccard index of the two keyword sets above 0.3, and 0 when a set is empty
SimilarTexts(a, b) ==
    LET ka == TextKeywords(a)
        kb == TextKeywords(b)
    IN  /\ ka # {}
        /\ kb # {}
        /\ 10 * Cardinality(ka \cap kb) > 3 * Cardinality(ka \cup kb)

\* the escalation count before the voting round that has just run
CountBeforeRound == state.gap_escalation_count - (IF escalated THEN 1 ELSE 0)

YesVotes == {i \in 1..Len(votes) : votes[i].vote = "Yes"}

IsPrefix(a, b) == Len(a) <= Len(b) /\ \A i \in 1..Len(a) : a[i] = b[i]

WorkNodes == {"prompt", "ingest", "clean", "transform", "debate"}

\* the segments of a text between full stops: each starts at the beginning
\* of the text or right after a full stop and runs up to the next full stop
\* or the end of the text
SegmentsOf(t) ==
    LET stops == {k \in 1..Len(t) : t[k] = "."}
        starts == {1} \cup {k + 1 : k \in stops}
        EndOf(i) == SetMin({k \in stops : k >= i} \cup {Len(t) + 1}) - 1
    IN  {SubSeq(t, i, EndOf(i)) : i \in starts}

\* the escalation decision of a third voting round that mined gap_list after
\* two rounds that mined "missing validation step"
EscalatesAfter(gap_list) ==
    LET earlier == Strip(Lower(Split(R_GAPA, ".")[2]))
    IN  should_escalate(<<earlier, earlier, Join(gap_list, T_sep_gap)>>, 0, gap_list)

\* the trimmed, lower-cased segments with a gap-indicator word in the
\* rationales of the No votes of the last voting round
NoVoteGapSegments ==
    UNION {{Strip(seg) : seg \in {g \in SegmentsOf(Lower(votes[i].rationale)) :
                                      HasGapKeyword(g)}} :
           i \in {n \in 1..Len(votes) : votes[n].vote = "No"}}

\* C1: after every voting round, consensus_reached is true iff the Yes votes
\* are a strict majority of the votes, and it equals the consensus that
\* validate_steps computed for the same votes.
C1_ConsensusIffMajority ==
    pc = "route" =>
        /\ state.consensus_reached <=> (2 * Cardinality(YesVotes) > Len(votes))
        /\ state.consensus_reached <=> validator_consensus(votes)

\* C2: no node of the stage sequence refine, ingest, clean, transform, vote
\* is entered more than MAX_DEBATE_ROUNDS times, and debate_rounds never
\* exceeds MAX_DEBATE_ROUNDS.
C2_RoundCap ==
    /\ state.debate_rounds <= MAX_DEBATE_ROUNDS
    /\ \A n \in Nodes \ {"discovery"} : executed[n] <= MAX_DEBATE_ROUNDS

\* a run that used every round without consensus
C2_Witness ==
    /\ pc = "END"
    /\ ~state.consensus_reached
    /\ state.debate_rounds = MAX_DEBATE_ROUNDS
    /\ executed["prompt"] = MAX_DEBATE_ROUNDS
    /\ executed["debate"] = MAX_DEBATE_ROUNDS

\* C3: the routing decision after a voting round ends the run iff
\* consensus_reached holds or debate_rounds has reached MAX_DEBATE_ROUNDS;
\* otherwise the next node is prompt (never discovery, never END); the
\* decision changes nothing of the state, so every artifact is kept.
C3_Routing ==
    [][pc = "route" =>
          (/\ pc' = "END" <=> (state.consensus_reached
                               \/ state.debate_rounds >= MAX_DEBATE_ROUNDS)
           /\ pc' # "END" => pc' = "prompt"
           /\ state' = state)]_vars

\* a loop back to prompt after the first round, the five artifacts kept
C3_Witness ==
    /\ pc = "prompt"
    /\ state.debate_rounds = 1
    /\ ~state.consensus_reached
    /\ Len(state.pipeline_steps) = 5

\* C4: no error raised by a collaborator call ends the run with an
\* exception.
C4_NoCollaboratorErrorAborts == pc # "aborted"

\* C5: a stage node never ends in an exception: whatever error its stage
\* function meets, one more artifact is in the list afterwards and the next
\* node is the next stage.
C5_StageFailureContained ==
    [][(pc \in StageNodes) =>
          (/\ pc' # "aborted"
           /\ Len((state').pipeline_steps) = Len(state.pipeline_steps) + 1)]_vars

\* C6: a voting round has one vote per reviewer, and the vote of each
\* reviewer whose call raised is No with a rationale that names the
\* reviewer and contains "error".
C6_FailedReviewerVotesNo ==
    pc = "route" =>
        /\ Len(votes) = Len(model_keys)
        /\ \A i \in 1..Len(input) :
              input[i].raised =>
                  /\ votes[i].vote = "No"
                  /\ Contains(votes[i].rationale, model_keys[i])
                  /\ Contains(Lower(votes[i].rationale), T_error)

\* a round in which every reviewer call raised
C6_Witness ==
    /\ pc = "route"
    /\ Len(votes) = Len(model_keys)
    /\ \A i \in 1..Len(input) : input[i].raised /\ votes[i].vote = "No"

\* C7: once discovery_node has run, discovered_tools is a non-empty map,
\* also when the discovery call failed.
C7_DiscoveredToolsNonEmpty ==
    pc # "discovery" => DOMAIN state.discovered_tools # {}

\* C8, comparing the first and the last of three: escalation fires in a
\* voting round iff feedback_history has more than two entries, the
\* escalation count was below the cap, the round produced a gap, and the
\* first and the last of the last three entries are similar.
C8_FirstAndLastOfThree ==
    pc = "route" =>
        (escalated <=>
            /\ Len(state.feedback_history) > 2
            /\ CountBeforeRound < ESCALATION_CAP
            /\ Len(unique_gaps) > 0
            /\ LET recent == LastN(state.feedback_history, HISTORY_WINDOW)
               IN  SimilarTexts(recent[1], recent[HISTORY_WINDOW]))

\* C8, comparing the non-empty entries: escalation fires in a voting round
\* iff feedback_history has more than two entries, the escalation count was
\* below the cap, the round produced a gap, at least two of the last three
\* entries are non-empty, and the first and the last NON-EMPTY entries among
\* them are similar.
C8_FirstAndLastNonEmpty ==
    pc = "route" =>
        (escalated <=>
            /\ Len(state.feedback_history) > 2
            /\ CountBeforeRound < ESCALATION_CAP
            /\ Len(unique_gaps) > 0
            /\ LET recent == LastN(state.feedback_history, HISTORY_WINDOW)
                   filled == {i \in 1..Len(recent) : recent[i] # <<>>}
               IN  /\ Cardinality(filled) >= 2
                   /\ SimilarTexts(recent[SetMin(filled)], recent[SetMax(filled)]))

\* escalation fired although the first of the last three entries is empty
C8_Witness ==
    /\ pc = "route"
    /\ escalated
    /\ LastN(state.feedback_history, HISTORY_WINDOW)[1] = <<>>

\* C9: gap_escalation_count never exceeds the cap; it grows by one exactly
\* when the resolver is called; at the cap no voting round calls the
\* resolver, and the round still ends at the routing decision.
C9_EscalationCap ==
    [][(/\ (state').gap_escalation_count <= ESCALATION_CAP
        /\ resolver_calls' - resolver_calls \in {0, 1}
        /\ (state').gap_escalation_count - state.gap_escalation_count
               = resolver_calls' - resolver_calls
        /\ state.gap_escalation_count = ESCALATION_CAP =>
               (/\ resolver_calls' = resolver_calls
                /\ (pc = "debate" /\ pc' # "aborted") =>
                       (/\ pc' = "route"
                        /\ (state').debate_rounds = state.debate_rounds + 1)))]_vars

\* two escalations brought the count to the cap, and a later round mined a
\* gap without calling the resolver
C9_Witness ==
    /\ pc = "route"
    /\ state.gap_escalation_count = ESCALATION_CAP
    /\ resolver_calls = ESCALATION_CAP
    /\ ~escalated
    /\ unique_gaps # <<>>

\* C10: when rounds 1, 2 and 3 mined the same gap text with a vocabulary
\* keyword, the resolver was called once in the run, in round 3, and at the
\* routing decision of round 3 its artifact is the last of the list, right
\* after that round's validation artifact.
C10_SameGapThreeRounds ==
    LET h == state.feedback_history
        steps == state.pipeline_steps
    IN  (/\ pc = "route"
         /\ state.debate_rounds = 3
         /\ Len(h) = 3
         /\ h[1] = h[2]
         /\ h[2] = h[3]
         /\ TextKeywords(h[3]) # {})
        => /\ escalated
           /\ resolver_calls = 1
           /\ state.gap_escalation_count = 1
           /\ steps[Len(steps)].step_name \in ResolverStepNames
           /\ steps[Len(steps) - 1].step_name = T_validation
           /\ Len(steps) = 5 * 3 + 1

\* round 3 of a run whose three rounds mined "missing validation step"
C10_Witness ==
    /\ pc = "route"
    /\ state.debate_rounds = 3
    /\ state.feedback_history = [i \in 1..3 |-> Strip(Lower(Split(R_GAPA, ".")[2]))]
    /\ escalated
    /\ LastStep(state).step_name \in ResolverStepNames

C12_AppendOnly ==
    [][(/\ IsPrefix(state.pipeline_steps, (state').pipeline_steps)
        /\ (pc \in WorkNodes /\ pc' # "aborted") =>
               Len((state').pipeline_steps) > Len(state.pipeline_steps)
        /\ (pc = "route") =>
               (state').pipeline_steps = state.pipeline_steps)]_vars

\* the second round has started on top of the five artifacts of the first
C12_Witness ==
    /\ pc = "ingest"
    /\ state.debate_rounds = 1
    /\ Len(state.pipeline_steps) = 6
    /\ state.pipeline_steps[5].step_name = T_validation
    /\ state.pipeline_steps[6].step_name = T_refined_prompt_name

\* C13: the gap list of a voting round holds only trimmed segments, with a
\* gap-indicator word, of rationales of No votes (so none that only a Yes
\* vote has), holds no entry twice, has at most GAP_LIMIT entries, and is the
\* whole set of such segments when that set has at most GAP_LIMIT elements.
C13_GapList ==
    pc = "route" =>
        LET mined == Range(unique_gaps)
        IN  /\ mined \subseteq NoVoteGapSegments
            /\ Cardinality(mined) = Len(unique_gaps)
            /\ Len(unique_gaps) <= GAP_LIMIT
            /\ Cardinality(NoVoteGapSegments) <= GAP_LIMIT => mined = NoVoteGapSegments

\* a round whose No votes hold more gap segments than GAP_LIMIT
C13_Witness ==
    /\ pc = "route"
    /\ Cardinality(NoVoteGapSegments) > GAP_LIMIT
    /\ Len(unique_gaps) = GAP_LIMIT

\* C14: the tally of the same reviewer answers taken in another reviewer
\* order gives the same consensus_reached, the same consensus inside
\* validate_steps, the same set of mined gaps (the same survivors of the cut
\* to GAP_LIMIT) and the same escalation decision.
C14_OrderIndependent ==
    [][(pc = "route" /\ pc' = "END" /\ input' # input) =>
          (/\ (state').consensus_reached = state.consensus_reached
           /\ validator_consensus(votes') = validator_consensus(votes)
           /\ Range(unique_gaps') = Range(unique_gaps)
           /\ EscalatesAfter(unique_gaps') = EscalatesAfter(unique_gaps))]_vars

\* C15: the tally applied again to the same list of reviewer answers gives
\* the same consensus_reached, the same set of mined gaps and the same
\* feedback_summary text.
C15_Deterministic ==
    [][(pc = "route" /\ pc' = "END" /\ input' = input) =>
          (/\ (state').consensus_reached = state.consensus_reached
           /\ Range(unique_gaps') = Range(unique_gaps)
           /\ (state').feedback_summary = state.feedback_summary)]_vars

\* C16: calculate_semantic_similarity returns 0.0 for two gap sets that
\* share no vocabulary keyword, and 1.0 for two identical non-empty gap sets.
C16_SimilarityBoundaries ==
    pc = "returned" =>
        LET gaps1 == input[1]
            gaps2 == input[2]
            Terms(gaps) == UNION {TextKeywords(g) : g \in gaps}
        IN  /\ (Terms(gaps1) \cap Terms(gaps2) = {}) => returned.num = 0
            /\ (gaps1 = gaps2 /\ gaps1 # {}) => returned.num = returned.den

\* C16, counting only gap sets that hold a vocabulary keyword as non-empty:
\* two gap sets that share no vocabulary keyword yield 0.0, two identical gap
\* sets holding at least one vocabulary keyword yield 1.0, and a gap set
\* holding no vocabulary keyword yields 0.0 against every gap set, itself
\* included.
C16_KeywordBoundaries ==
    pc = "returned" =>
        LET gaps1 == input[1]
            gaps2 == input[2]
            Terms(gaps) == UNION {TextKeywords(g) : g \in gaps}
        IN  /\ (Terms(gaps1) \cap Terms(gaps2) = {}) => returned.num = 0
            /\ (gaps1 = gaps2 /\ Terms(gaps1) # {})
                    => (returned.num = returned.den /\ returned.den > 0)
            /\ (Terms(gaps1) = {} \/ Terms(gaps2) = {}) => returned.num = 0

\* two identical gap sets holding two vocabulary keywords have been compared
C16_Witness ==
    /\ pc = "returned"
    /\ input[1] = input[2]
    /\ Cardinality(UNION {TextKeywords(g) : g \in input[1]}) >= 2
    /\ returned.num = returned.den

\* the opening of the tally rationale for yes votes out of n
TallyOpening(yes, n) ==
    T_consensus \o IntToText(yes) \o T_slash \o IntToText(n) \o T_yes_votes

VotesOf(vote) == {i \in 1..Len(votes) : votes[i].vote = vote}

\* C17: a voting round that returns appends a summary artifact named
\* "validation" whose rationale opens with count(Yes)/N for the votes of the
\* round, N being the number of reviewers and the length of the vote list;
\* the artifact asks for refinement exactly when the Yes votes are no
\* majority, so votes [Yes, No, No] give no consensus and "1/3 yes".
C17_TallyArtifact ==
    [][(pc = "debate" /\ Len((state').pipeline_steps) > Len(state.pipeline_steps))
        => LET artifact == (state').pipeline_steps[Len(state.pipeline_steps) + 1]
               N == Len(model_keys)
               yes == Cardinality({i \in 1..Len(votes') : votes'[i].vote = "Yes"})
           IN  /\ Len(votes') = N
               /\ \A i \in 1..N : votes'[i].vote \in {"Yes", "No"}
               /\ artifact.step_name = T_validation
               /\ IsPrefix(TallyOpening(yes, N), artifact.rationale)
               /\ \A i \in 1..N : Contains(artifact.rationale, votes'[i].rationale)
               /\ (artifact.code_snippet = "") = (2 * yes > N)
               /\ (yes = 1 /\ N = 3) => artifact.code_snippet = "Refine pipeline"]_vars

\* a round voted [Yes, No, No] and its artifact, reporting 1/3 yes and asking
\* for refinement, is the last of the artifact list
C17_Witness ==
    /\ pc = "route"
    /\ VotesOf("Yes") = {1}
    /\ VotesOf("No") = {2, 3}
    /\ Len(state.pipeline_steps) = 1
    /\ state.pipeline_steps[1].step_name = T_validation
    /\ IsPrefix(TallyOpening(1, 3), state.pipeline_steps[1].rationale)
    /\ state.pipeline_steps[1].code_snippet = "Refine pipeline"

\* C18: every run reaches END, after at most MAX_DEBATE_ROUNDS voting rounds.
C18_ReachesEnd ==
    <>(pc = "END" /\ executed["debate"] <= MAX_DEBATE_ROUNDS)

\* C19: routing only reads the state; when it finds the round cap reached
\* and no consensus, the run ends at END, not in an error, and the final
\* state and the report made of it have consensus_reached false.
C19_CapIsNoConsensus ==
    [][(pc = "route")
        => /\ state' = state
           /\ (~state.consensus_reached /\ state.debate_rounds >= MAX_DEBATE_ROUNDS)
                  => (/\ pc' = "END"
                      /\ (state').consensus_reached = FALSE
                      /\ pipeline_output(state').consensus_reached = FALSE
                      /\ pipeline_output(state').debate_rounds = MAX_DEBATE_ROUNDS)]_vars

\* a run has ended at the round cap after three rounds without consensus
C19_Witness ==
    /\ pc = "END"
    /\ executed["debate"] = MAX_DEBATE_ROUNDS
    /\ state.debate_rounds = MAX_DEBATE_ROUNDS
    /\ ~state.consensus_reached
    /\ ~pipeline_output(state).consensus_reached

\* C20: after a stage whose collaborators all answered and whose generator
\* returned an artifact with output locator L and format F, the artifact is
\* appended and the workflow goes on; current_data_path = L, data_format = F
\* and the stage's metadata entry = L when L is given, and the three are
\* unchanged when the artifact has no output locator.
C20_StageLocator ==
    [][(pc \in StageNodes /\ input # <<>> /\ input.kind = "chain_returned")
        => LET L == input.step.output_file_path
               F == input.step.output_format
               steps == (state').pipeline_steps
           IN  /\ pc' \in Nodes
               /\ Len(steps) = Len(state.pipeline_steps) + 1
               /\ steps[Len(steps)].step_name = input.step.step_name
               /\ IF L # ""
                  THEN /\ (state').current_data_path = L
                       /\ (state').data_format = F
                       /\ MetadataKey(pc) \in DOMAIN (state').pipeline_metadata
                       /\ (state').pipeline_metadata[MetadataKey(pc)] = L
                  ELSE /\ (state').current_data_path = state.current_data_path
                       /\ (state').data_format = state.data_format
                       /\ (state').pipeline_metadata = state.pipeline_metadata]_vars

FallbackNames ==
    {T_data_ingestion_fallback, T_data_cleaning_fallback, T_feature_engineering_fallback}

C22_FeedbackInjected ==
    [][(pc = "prompt" /\ pc' # "aborted")
        => (/\ IF state.feedback_summary = <<>>
               THEN refine_input' = state.task
               ELSE /\ IsPrefix(state.feedback_summary, refine_input')
                    /\ Contains(refine_input', state.task)
                    /\ Len(refine_input') > Len(state.feedback_summary) + Len(state.task)
            /\ (unique_gaps # <<>>) => state.feedback_summary # <<>>
            /\ Len((state').pipeline_steps) = Len(state.pipeline_steps) + 1
            /\ LastStep(state') \in RefineOutputs
            /\ (state').refined_prompt = LastStep(state').rationale
            /\ (state').task = state.task)]_vars

\* the second round's prompt_node has run on the feedback of a first round
\* that mined gaps
C22_Witness ==
    /\ pc = "ingest"
    /\ executed["prompt"] = 2
    /\ unique_gaps # <<>>
    /\ state.feedback_summary # <<>>
    /\ IsPrefix(state.feedback_summary, refine_input)
    /\ state.refined_prompt # <<>>

\* the declared order of the nodes
NodeOrder == <<"discovery", "prompt", "ingest", "clean", "transform", "debate">>

PositionOf(node) == CHOOSE i \in 1..Len(NodeOrder) : NodeOrder[i] = node

\* the node executions so far are a beginning of Discovery followed by
\* repetitions of (Refine, ingest, clean, transform, Vote)
InDeclaredOrder(count, at) ==
    /\ count["discovery"] <= 1
    /\ \A i \in 2..(Len(NodeOrder) - 1) :
          count[NodeOrder[i + 1]] \in {count[NodeOrder[i]] - 1, count[NodeOrder[i]]}
    /\ count["debate"] >= count["prompt"] - 1
    /\ (at \in {"route", "END"}) =>
          (/\ count["discovery"] = 1
           /\ count["debate"] >= 1
           /\ \A n \in WorkNodes : count[n] = count["debate"])

\* C23: the runtime executes one node at a time; each execution is followed
\* by the next node of the order Discovery, Refine, ingest, clean,
\* transform, Vote (or ends the run with the node's exception), a loop-back
\* restarts at Refine, Discovery runs once, and a run that reaches END has
\* executed every node of the round the same number of times, at least once.
C23_DeclaredOrder ==
    [][(/\ (pc \in Nodes) =>
             (/\ executed' = [executed EXCEPT ![pc] = @ + 1]
              /\ pc' \in {"aborted",
                          IF pc = "debate" THEN "route"
                          ELSE NodeOrder[PositionOf(pc) + 1]})
        /\ (pc = "route") => (executed' = executed /\ pc' \in {"prompt", "END"})
        /\ pc \notin {"END", "aborted"}
        /\ InDeclaredOrder(executed', pc'))]_vars

\* a run has ended after three full rounds
C23_Witness ==
    /\ pc = "END"
    /\ executed["discovery"] = 1
    /\ \A n \in WorkNodes : executed[n] = MAX_DEBATE_ROUNDS

\* C24: a stage generator call or a reviewer call that does not return is
\* given up after its timeout and the workflow advances: no node waits for
\* a call forever.
C24_NoCallBlocksForever == (pc = "pending") ~> (pc # "pending")

\* C25: when the votes of the first voting round are a Yes majority, the
\* workflow goes to END after that one pass through the stages, with
\* consensus_reached true and a non-empty artifact list.
C25_FirstRoundConsensusEnds ==
    [][(/\ pc = "route"
        /\ executed["debate"] = 1
        /\ 2 * Cardinality(YesVotes) > Len(votes))
        => (/\ pc' = "END"
            /\ (state').consensus_reached
            /\ (state').pipeline_steps # <<>>
            /\ \A n \in WorkNodes : executed'[n] = 1)]_vars

\* the names of the artifacts a stage produces: its generator's, or its
\* fallback's
StageStepNames(node) ==
    IF node = "ingest" THEN {T_data_ingestion, T_data_ingestion_fallback}
    ELSE IF node = "clean" THEN {T_data_cleaning, T_data_cleaning_fallback}
    ELSE {T_data_transformation, T_feature_engineering_fallback}

ProducedBy(node) ==
    {i \in 1..Len(state.pipeline_steps) :
        state.pipeline_steps[i].step_name \in StageStepNames(node)}

\* C26: a run that has reached END has debate_rounds >= 1 and an artifact
\* list holding an artifact of the ingest stage, one of the clean stage and
\* one of the transform stage, in that order, hence at least 3 artifacts.
C26_EndAfterFullPass ==
    (pc = "END") =>
        /\ state.debate_rounds >= 1
        /\ Len(state.pipeline_steps) >= Cardinality(StageNodes)
        /\ \E i \in ProducedBy("ingest"), j \in ProducedBy("clean"),
              k \in ProducedBy("transform") : i < j /\ j < k

\* a run has ended whose ingest stage fell back in some round
C26_Witness ==
    /\ pc = "END"
    /\ state.debate_rounds >= 1
    /\ \E i \in ProducedBy("ingest") :
          state.pipeline_steps[i].step_name = T_data_ingestion_fallback
    /\ ProducedBy("clean") # {}
    /\ ProducedBy("transform") # {}

\* the number of terms of the vocabulary
VOCABULARY_SIZE == 9

\* K: the vocabulary terms that occur in some gap text of the collection
VocabularyTerms(gaps) == UNION {TextKeywords(g) : g \in gaps}

\* C27: the similarity of gap collections A and B is the Jaccard index of
\* K(A) and K(B), K taking the terms of the 9-term vocabulary that occur,
\* whatever the case, in a gap text; it is 0 when K(A) or K(B) is empty, it
\* is the same for (B, A), and it lies between 0 and 1.
C27_JaccardOfKeywords ==
    (pc = "returned") =>
        LET KA == VocabularyTerms(input[1])
            KB == VocabularyTerms(input[2])
        IN  /\ Len(key_terms) = VOCABULARY_SIZE
            /\ returned.den > 0
            /\ IF KA = {} \/ KB = {}
               THEN returned.num = 0
               ELSE returned.num * Cardinality(KA \cup KB)
                        = returned.den * Cardinality(KA \cap KB)
            /\ returned.num >= 0
            /\ returned.num <= returned.den
            /\ LET swapped == calculate_semantic_similarity(input[2], input[1])
               IN  returned.num * swapped.den = swapped.num * returned.den
            /\ (input[1] = {G_UPPER} /\ input[2] = {G_STEP})
                  => (returned.num = returned.den)
            /\ (input[1] = GapTexts) => Cardinality(KA) = VOCABULARY_SIZE

\* a gap collection written in upper case has been compared with one it
\* shares some but not all vocabulary terms with
C27_Witness ==
    /\ pc = "returned"
    /\ input[1] = {G_UPPER}
    /\ returned.num > 0
    /\ returned.num < returned.den

\* C28: whatever the order in which the reviewer calls complete, the votes
\* are structured only once all of them have completed or failed; the vote
\* list has one entry per reviewer, the i-th being the answer (or the
\* fallback vote) of the i-th reviewer; and a result slot is written once,
\* by the completion of its own reviewer, and never changed afterwards.
C28_JoinBeforeTally ==
    [][(/\ (votes' # <<>>) =>
             (/\ Len((returned').order) = Len(model_keys)
              /\ Len(votes') = Len(model_keys)
              /\ \A i \in Reviewers :
                    votes'[i].rationale =
                        (IF input[i].raised THEN FallbackVote(model_keys[i])
                         ELSE input[i].value).rationale)
        /\ \A i \in Reviewers :
              \/ (returned').slots[i] = returned.slots[i]
              \/ /\ returned.slots[i] = <<>>
                 /\ (returned').order = Append(returned.order, i)
        /\ (pc = "gather" /\ pc' = "tallied") => (votes = <<>> /\ returned' = returned))]_vars

\* the reviewers completed in the order third, first, second, with three
\* different answers, and the votes have been structured
C28_Witness ==
    /\ pc = "tallied"
    /\ returned.order = <<3, 1, 2>>
    /\ Cardinality({votes[i].rationale : i \in Reviewers}) = Len(model_keys)
    /\ input[2].raised

\* C29: len(feedback_history) = debate_rounds before and after every step;
\* a voting round appends one gap summary, which may be the empty string,
\* and adds 1 to debate_rounds; a voting round that ends in its tool call's
\* exception and every other node leave both unchanged; entries already in
\* feedback_history stay as they are.
C29_HistoryCountsRounds ==
    [][(/\ Len(state.feedback_history) = state.debate_rounds
        /\ Len((state').feedback_history) = (state').debate_rounds
        /\ IsPrefix(state.feedback_history, (state').feedback_history)
        /\ IF pc = "debate" /\ (state').pipeline_steps # state.pipeline_steps
           THEN (state').debate_rounds = state.debate_rounds + 1
           ELSE /\ (state').debate_rounds = state.debate_rounds
                /\ (state').feedback_history = state.feedback_history)]_vars

\* a run has ended after three rounds of which one mined no gap and one
\* mined some
C29_Witness ==
    /\ pc = "END"
    /\ Len(state.feedback_history) = MAX_DEBATE_ROUNDS
    /\ \E i, j \in 1..Len(state.feedback_history) :
          state.feedback_history[i] = <<>> /\ state.feedback_history[j] # <<>>

\* a state without its pipeline_metadata
WithoutMetadata(s) == [f \in (DOMAIN s) \ {"pipeline_metadata"} |-> s[f]]

\* C30: pipeline_metadata is never read. Whatever mapping replaces it in the
\* state a node starts from, the node, given the same collaborator answers,
\* leaves the same artifacts, debate_rounds, consensus_reached,
\* gap_escalation_count and every other field but pipeline_metadata, and
\* the same node runs next; only the stage nodes write it. Two runs that
\* differ only in the initial pipeline_metadata therefore agree step by step.
C30_MetadataNeverRead ==
    [][\A m \in CallerMetadata :
         LET twin == [state EXCEPT !.pipeline_metadata = m]
             n == Len(state.pipeline_steps)
             same(s) == WithoutMetadata(s) = WithoutMetadata(state')
         IN  /\ (pc = "discovery") =>
                   same([twin EXCEPT !.discovered_tools = (state').discovered_tools])
             /\ (pc = "prompt") =>
                   (/\ task_with_feedback(twin) = refine_input'
                    /\ (pc' # "aborted") =>
                          same([twin EXCEPT
                                  !.refined_prompt = LastStep(state').rationale,
                                  !.pipeline_steps = Append(@, LastStep(state'))]))
             /\ (pc \in StageNodes /\ pc' # "aborted") =>
                   same(stage_update(twin, LastStep(state'), MetadataKey(pc)))
             /\ (pc = "debate" /\ pc' = "route") =>
                   LET result == [step |-> (state').pipeline_steps[n + 1], votes |-> votes']
                       voted == after_vote(twin, result, unique_gaps')
                   IN  /\ should_escalate(voted.feedback_history,
                                          voted.gap_escalation_count, unique_gaps')
                              = escalated'
                       /\ IF ~escalated'
                          THEN same(voted)
                          ELSE same(after_revalidation(
                                   [voted EXCEPT !.gap_escalation_count = @ + 1,
                                                 !.pipeline_steps =
                                                     Append(@, LastStep(state'))],
                                   LastStep(state'), revalidation'))
             /\ (pc = "route") => (route(twin) = pc' /\ state' = state)
             /\ (pc \notin StageNodes) =>
                   (state').pipeline_metadata = state.pipeline_metadata]_vars

\* the ingest stage has run without naming an output, in a run whose caller
\* handed over a metadata entry for it: the entry is still the caller's
C30_Witness ==
    /\ pc = "clean"
    /\ executed["ingest"] = 1
    /\ LastStep(state).output_file_path = ""
    /\ state.pipeline_metadata # EmptyDict

\* the text holds y, e, s in a row, each in either case
HasYes(t) ==
    \E i \in 1..(Len(t) - 2) :
        /\ t[i] \in {"y", "Y"}
        /\ t[i + 1] \in {"e", "E"}
        /\ t[i + 2] \in {"s", "S"}

\* the rationale reviewer i's vote is made from: its answer's, or the
\* fallback's when its call raised
RationaleOf(i) ==
    IF input[i].raised THEN FallbackVote(model_keys[i]).rationale
    ELSE input[i].value.rationale

\* C31: a reviewer's vote is Yes exactly when its rationale holds "yes" in
\* any case, anywhere, and No otherwise; the vote of a reviewer whose call
\* raised is No, whichever of the configured reviewers it is.
C31_YesIffSubstring ==
    (pc = "route") =>
        /\ \A i \in 1..Len(model_keys) :
              /\ votes[i].vote = (IF HasYes(RationaleOf(i)) THEN "Yes" ELSE "No")
              /\ input[i].raised => votes[i].vote = "No"
        /\ \A k \in 1..Len(model_keys) : ~HasYes(FallbackVote(model_keys[k]).rationale)

\* a round in which "yes" inside another word and "YES" in upper case were
\* counted as Yes, next to a reviewer whose call raised
C31_Witness ==
    /\ pc = "route"
    /\ ~input[1].raised
    /\ input[1].value.rationale = R_EYES
    /\ votes[1].vote = "Yes"
    /\ input[2].raised
    /\ votes[2].vote = "No"
    /\ ~input[3].raised
    /\ input[3].value.rationale = R_SHOUT
    /\ votes[3].vote = "Yes"

\* the positions of the artifact list that hold a step with one of the names
StepsNamed(names) ==
    {i \in 1..Len(state.pipeline_steps) : state.pipeline_steps[i].step_name \in names}

\* C32: at every routing decision the artifact list holds five artifacts per
\* round (one for each of refine, ingest, clean, transform and validation)
\* plus one per escalation: the resolver's; the re-validation adds none.
C32_ArtifactCount ==
    (pc = "route") =>
        /\ Len(state.pipeline_steps) =
              Cardinality(WorkNodes) * state.debate_rounds + state.gap_escalation_count
        /\ Cardinality(StepsNamed({T_validation})) = state.debate_rounds
        /\ Cardinality(StepsNamed(ResolverStepNames)) = state.gap_escalation_count
        /\ \A node \in StageNodes :
              Cardinality(StepsNamed(StageStepNames(node))) = state.debate_rounds

\* a routing decision after a third round whose escalation was re-validated
C32_Witness ==
    /\ pc = "route"
    /\ escalated
    /\ revalidation # <<>>
    /\ state.gap_escalation_count = 1
    /\ state.debate_rounds = MAX_DEBATE_ROUNDS
    /\ Len(state.pipeline_steps) = Cardinality(WorkNodes) * MAX_DEBATE_ROUNDS + 1

\* C33: from the default initial state the resolver is called in no round
\* before the third and at most once in a run, so gap_escalation_count
\* never exceeds 1 and never reaches the cap.
C33_EscalationOnlyInLastRound ==
    [][(/\ (state').gap_escalation_count <= 1
        /\ (state').gap_escalation_count < ESCALATION_CAP
        /\ resolver_calls' <= 1
        /\ (\/ (state').gap_escalation_count # state.gap_escalation_count
            \/ resolver_calls' # resolver_calls
            \/ (pc = "debate" /\ escalated'))
           => (/\ pc = "debate"
               /\ state.debate_rounds = MAX_DEBATE_ROUNDS - 1
               /\ state.gap_escalation_count = 0
               /\ (state').gap_escalation_count = 1
               /\ resolver_calls = 0))]_vars

\* the routing decision of a round 3 that called the resolver, after a
\* round 2 that had mined the gap of round 1 again without calling it
C33_Witness ==
    /\ pc = "route"
    /\ state.debate_rounds = MAX_DEBATE_ROUNDS
    /\ state.feedback_history[1] = state.feedback_history[2]
    /\ state.feedback_history[1] # <<>>
    /\ escalated
    /\ resolver_calls = 1
    /\ state.gap_escalation_count = 1

RECURSIVE SumOver(_, _)
\* the sum of f over the set S of its arguments
SumOver(f, S) ==
    IF S = {} THEN 0
    ELSE LET x == CHOOSE y \in S : TRUE
         IN  f[x] + SumOver(f, S \ {x})

\* the node executions of the run so far
NodeExecutions == SumOver(executed, Nodes)

\* C34: a run executes at most 1 + 5 * MAX_DEBATE_ROUNDS nodes (discovery
\* once, five nodes per round), which is below the graph engine's step
\* limit, both the default one and the one main configures: the routing
\* function ends the run first.
C34_BelowStepLimit ==
    /\ NodeExecutions <= 1 + Cardinality(WorkNodes) * MAX_DEBATE_ROUNDS
    /\ NodeExecutions <= 16
    /\ NodeExecutions < DEFAULT_STEP_LIMIT
    /\ NodeExecutions < RECURSION_LIMIT
    /\ executed["discovery"] <= 1
    /\ (pc \notin {"END", "aborted"}) => NodeExecutions < 16 \/ pc = "route"
    /\ (pc = "route" /\ NodeExecutions = 16) => route(state) = "END"

\* a run ended by the routing function after sixteen node executions
C34_Witness ==
    /\ pc = "END"
    /\ NodeExecutions = 16
    /\ ~state.consensus_reached
    /\ state.debate_rounds = MAX_DEBATE_ROUNDS

\* C35: current_data_path is never empty: it starts as the input path of
\* the task, and a step changes it only by a stage node writing the
\* non-empty output locator of the artifact it appended.
C35_CursorNeverEmpty ==
    [][(/\ state.current_data_path # ""
        /\ (state').current_data_path # ""
        /\ "current_data_path" \in DOMAIN state'
        /\ (state').current_data_path # state.current_data_path
           => (/\ pc \in StageNodes
               /\ Len((state').pipeline_steps) = Len(state.pipeline_steps) + 1
               /\ LastStep(state').output_file_path # ""
               /\ (state').current_data_path = LastStep(state').output_file_path))]_vars

\* the clean stage moved the cursor and the transform stage, whose artifact
\* names no output, left it there
C35_Witness ==
    /\ pc = "debate"
    /\ LastStep(state).step_name = T_data_transformation
    /\ LastStep(state).output_file_path = ""
    /\ state.current_data_path = "data/cleaned.parquet"

\* the output locator of the newest artifact of a stage node that names
\* one, and the input path of the task when there is none
LocatorLeft(s) ==
    LET named == {i \in 1..Len(s.pipeline_steps) :
                     /\ \E node \in StageNodes :
                           s.pipeline_steps[i].step_name \in StageStepNames(node)
                     /\ s.pipeline_steps[i].output_file_path # ""}
    IN  IF named = {} THEN setup_initial_state.current_data_path
        ELSE s.pipeline_steps[SetMax(named)].output_file_path

AppendedThisRoundBy(node, step) ==
    LET produced == StepsNamed(StageStepNames(node))
    IN  /\ produced # {}
        /\ step = state.pipeline_steps[SetMax(produced)]
        /\ Cardinality(produced) = state.debate_rounds + 1

\* C37: in every round, also after a loop-back and after an escalation, the
\* previous step handed to the clean stage is the artifact the ingest stage
\* appended in that round, and the one handed to the transform stage is the
\* artifact the clean stage appended in that round; never a refine, a
\* validation or a resolver artifact.
C37_PreviousStepOfSameRound ==
    [][(/\ (pc = "clean") => AppendedThisRoundBy("ingest", last_step')
        /\ (pc = "transform") => AppendedThisRoundBy("clean", last_step')
        /\ (pc \in {"clean", "transform"}) =>
              last_step'.step_name \notin
                  {T_validation, T_refined_prompt_name} \cup ResolverStepNames
        /\ (pc \notin {"clean", "transform"}) => last_step' = last_step)]_vars

\* the clean stage has run in a round that follows an escalation: the list
\* holds a resolver artifact and the step handed over is the ingest stage's
C37_Witness ==
    /\ pc = "transform"
    /\ state.debate_rounds >= 1
    /\ StepsNamed(ResolverStepNames) # {}
    /\ last_step.step_name = T_data_ingestion
    /\ last_step = state.pipeline_steps[Len(state.pipeline_steps) - 1]

\* C38: after a voting round that did not call the resolver feedback_summary
\* is non-empty exactly when the round mined a gap, and it is made of this
\* round's gaps alone, whatever it was before; so after a round without
\* consensus whose No votes hold no gap-indicator word it is empty, and the
\* refine step that follows receives the bare task.
C38_SummaryIffGaps ==
    [][(/\ (pc = "debate" /\ pc' = "route" /\ ~escalated') =>
              (/\ (state').feedback_summary # <<>> <=> NoVoteGapSegments' # {}
               /\ (state').feedback_summary # <<>> <=> unique_gaps' # <<>>
               /\ Range(unique_gaps') \subseteq NoVoteGapSegments'
               /\ (state').feedback_summary =
                      IF unique_gaps' = <<>> THEN <<>>
                      ELSE T_must_address
                           \o (state').feedback_history[Len((state').feedback_history)])
        /\ (/\ pc = "prompt"
            /\ state.debate_rounds >= 1
            /\ ~escalated
            /\ NoVoteGapSegments = {}) =>
              (/\ state.feedback_summary = <<>>
               /\ refine_input' = state.task))]_vars

\* the refine step of round 3 has received the bare task: round 1 mined a
\* gap, round 2 failed consensus with a No vote that names none
C38_Witness ==
    /\ pc = "ingest"
    /\ state.debate_rounds = 2
    /\ state.feedback_history[1] # <<>>
    /\ state.feedback_history[2] = <<>>
    /\ ~state.consensus_reached
    /\ VotesOf("No") # {}
    /\ state.feedback_summary = <<>>
    /\ refine_input = state.task

\* the fields of the state that neither a voting round nor an escalation
\* writes
RoundFrame == {"task", "refined_prompt", "discovered_tools", "current_data_path",
               "data_format", "pipeline_metadata"}

====
